---------------------------- MODULE Spec2Model ----------------------------
(***************************************************************************)
(* Neural growth and synaptic plasticity engine of HekmatMind               *)
(* (src/hekmat_mind/src/neural/growth): growth Synapse, AxonGrowth,         *)
(* DendriticTree and DendriteResourceManager.                               *)
(*                                                                         *)
(* Numbers.  The code computes in f32.  The model computes in fixed point:  *)
(* the integer v stands for the real v / SCALE, SCALE = 10^6, and every     *)
(* product and quotient is truncated to that grid (f32 rounds to 24 bits).  *)
(* TLC's integers are 32 bits wide, so products and quotients are computed  *)
(* by long multiplication / long division and never overflow for the        *)
(* magnitudes the bounded inputs produce (|v| < 2000.0).  The f32 value NaN *)
(* (powf of a negative base) is the value NaN below; infinities are not     *)
(* reached by the bounded inputs.                                           *)
(***************************************************************************)
EXTENDS Integers, Sequences, FiniteSets, TLC

\* ------------------------------------------------------------------------
\* f32 arithmetic in fixed point
\* ------------------------------------------------------------------------
K == 10 * 10 * 10
SCALE == K * K

\* n / d as a fixed-point literal, e.g. Lit(12, 10) is 1.2
Lit(n, d) == (n * SCALE) \div d

\* LET x == v IN F(x), with v evaluated once
Let(v, F(_)) == CHOOSE r \in {F(x) : x \in {v}} : TRUE

Abs(x) == IF x < 0 THEN -x ELSE x

MulAbs(a, b) ==
    LET ah == a \div K
        al == a % K
        bh == b \div K
        bl == b % K
    IN  ah * bh + ((ah * bl + al * bh + ((al * bl) \div K)) \div K)

MulSigned(a, b) ==
    IF (a < 0) = (b < 0) THEN MulAbs(Abs(a), Abs(b)) ELSE -MulAbs(Abs(a), Abs(b))

\* a * b
FMul(a, b) == CHOOSE r \in {MulSigned(x, y) : x \in {a}, y \in {b}} : TRUE

RECURSIVE LongDiv(_, _, _, _)
LongDiv(q, r, b, n) ==
    IF n = 0 THEN q
    ELSE LongDiv(q * 10 + ((r * 10) \div b), (r * 10) % b, b, n - 1)

DivAbs(a, b) ==
    IF b < K
    THEN (a \div b) * SCALE + ((a % b) * SCALE) \div b
    ELSE LongDiv(a \div b, a % b, b, 6)

DivSigned(a, b) ==
    IF (a < 0) = (b < 0) THEN DivAbs(Abs(a), Abs(b)) ELSE -DivAbs(Abs(a), Abs(b))

\* a / b, b # 0
FDiv(a, b) == CHOOSE r \in {DivSigned(x, y) : x \in {a}, y \in {b}} : TRUE

FMin(a, b) == Let(a, LAMBDA x : Let(b, LAMBDA y : IF x < y THEN x ELSE y))
FMax(a, b) == Let(a, LAMBDA x : Let(b, LAMBDA y : IF x > y THEN x ELSE y))
\* f32::clamp(lo, hi)
FClamp(v, lo, hi) == Let(v, LAMBDA x : IF x < lo THEN lo ELSE IF x > hi THEN hi ELSE x)

\* largest r in lo..hi with r * r <= x
RECURSIVE SqrtB(_, _, _)
SqrtB(x, lo, hi) ==
    IF lo >= hi THEN lo
    ELSE LET mid == (lo + hi + 1) \div 2
         IN  IF MulAbs(mid, mid) <= x THEN SqrtB(x, mid, hi) ELSE SqrtB(x, lo, mid - 1)

\* f32::sqrt
FSqrt(v) == Let(v, LAMBDA x : IF x <= 0 THEN 0 ELSE SqrtB(x, 0, 46000 * K))

\* x^n for an integral exponent n >= 0 (powi, and powf of an integral value)
RECURSIVE PowI(_, _)
PowI(x, n) == IF n = 0 THEN SCALE ELSE MulSigned(x, PowI(x, n - 1))

FPowI(v, n) == Let(v, LAMBDA x : PowI(x, n))

\* largest r in lo..hi with r^5 <= x
RECURSIVE Root5B(_, _, _)
Root5B(x, lo, hi) ==
    IF lo >= hi THEN lo
    ELSE LET mid == (lo + hi + 1) \div 2
         IN  IF PowI(mid, 5) <= x THEN Root5B(x, mid, hi) ELSE Root5B(x, lo, mid - 1)

\* The f32 NaN.  Only a synapse weight can hold it.
NaN == -(2000 * SCALE)
IsNaN(x) == x = NaN

\* x.powf(0.8) = (x^(1/5))^4; NaN for a negative base
PowF08(v) ==
    Let(v, LAMBDA x :
        IF IsNaN(x) \/ x < 0 THEN NaN
        ELSE IF x = 0 THEN 0
        ELSE PowI(Root5B(x, 0, Lit(46, 10)), 4))

\* NaN-propagating +, -, *; f32::min returns the other argument for a NaN;
\* every comparison with a NaN is false.
NAdd(a, b) == Let(a, LAMBDA x : Let(b, LAMBDA y : IF IsNaN(x) \/ IsNaN(y) THEN NaN ELSE x + y))
NSub(a, b) == Let(a, LAMBDA x : Let(b, LAMBDA y : IF IsNaN(x) \/ IsNaN(y) THEN NaN ELSE x - y))
NMul(a, b) ==
    Let(a, LAMBDA x : Let(b, LAMBDA y : IF IsNaN(x) \/ IsNaN(y) THEN NaN ELSE MulSigned(x, y)))
NMin(a, b) ==
    Let(a, LAMBDA x : Let(b, LAMBDA y :
        IF IsNaN(x) THEN y ELSE IF IsNaN(y) THEN x ELSE IF x < y THEN x ELSE y))
NLt(a, b) == Let(a, LAMBDA x : Let(b, LAMBDA y : ~IsNaN(x) /\ ~IsNaN(y) /\ x < y))

\* ------------------------------------------------------------------------
\* dendritic_growth::constants
\* ------------------------------------------------------------------------
D_ENERGY_PER_GROWTH_UNIT == Lit(12, 10)
D_MIN_ENERGY_THRESHOLD_Lower == Lit(2, 1)
D_MIN_ENERGY_THRESHOLD == Lit(3, 1)
BASE_BRANCHING_PROBABILITY == Lit(1, 10)
MAX_BRANCHING_DEPTH == 6
MIN_SYNAPSE_ACTIVITY == Lit(5, 100)
INACTIVITY_THRESHOLD_DAYS == Lit(3, 1)
OPTIMAL_CONNECTION_COUNT == 20
ELECTROTONIC_DECAY_LAMBDA == Lit(5, 10)
MAX_ELECTROTONIC_LENGTH == Lit(12, 10)

\* ------------------------------------------------------------------------
\* State
\* ------------------------------------------------------------------------
VARIABLES
    syn,        \* a growth Synapse held by a caller
    synOp,      \* the last call made on syn
    synCalls,   \* number of calls made on syn
    synLast,    \* the last call made on syn: its arguments and the synapse
                \* before the call
    axon,       \* an AxonGrowth
    axonLast,   \* the last call made on axon: its arguments, the axon before
                \* the call, the value returned and the return taken
    axonCalls,  \* number of calls made on axon
    factorLast, \* the last GrowthFactor::new call: its arguments and the factor
                \* it returned
    trees,      \* the DendriticTrees a caller holds
    rngTable,   \* the values StdRng has produced for the seeds used so far
    treeLast,   \* the last call made on the trees: its arguments, the trees
                \* before the call, the values returned and the returns taken
    treeCalls,  \* number of calls made on the trees
    mgr,        \* a DendriteResourceManager
    mgrDendrites, \* the DendriticTrees the caller passes to the manager
    mgrLast,    \* the last call made on mgr: its arguments, the manager and
                \* the trees before the call
    mgrCalls    \* number of calls made on mgr

synVars == <<syn, synOp, synCalls, synLast>>
axonVars == <<axon, axonLast, axonCalls, factorLast>>
treeVars == <<trees, rngTable, treeLast, treeCalls>>
mgrVars == <<mgr, mgrDendrites, mgrLast, mgrCalls>>
vars == <<syn, synOp, synCalls, synLast, axon, axonLast, axonCalls, factorLast,
          trees, rngTable, treeLast, treeCalls, mgr, mgrDendrites, mgrLast, mgrCalls>>

\* ------------------------------------------------------------------------
\* Synapse
\* ------------------------------------------------------------------------
MaxSynCalls == 3

Sources == {"n1", "n2"}
\* electrotonic distances a caller passes
DistanceInputs == {Lit(-1, 1), Lit(1, 10), Lit(2, 1)}
\* initial weights and plasticities a caller passes to with_params
WeightInputs == {Lit(-1, 2), 0, Lit(1, 2), Lit(3, 1)}
PlasticityInputs == {Lit(1, 100), Lit(1, 2)}
\* arguments of strengthen / weaken
AmountInputs == {Lit(-10, 1), 0, Lit(2, 100), Lit(1, 1), Lit(10, 1)}

\* Synapse::new
SynapseNew(source, position, distance) ==
    [ source_neuron_id |-> source,
      weight |-> Lit(1, 10),
      position |-> position,
      electrotonic_distance |-> FMin(distance, MAX_ELECTROTONIC_LENGTH),
      state |-> "Active",
      activity_history |-> << >>,
      last_active |-> 0,
      plasticity |-> Lit(1, 100) ]

\* Synapse::with_params
SynapseWithParams(source, position, distance, initial_weight, plasticity) ==
    [ source_neuron_id |-> source,
      weight |-> FClamp(initial_weight, 0, SCALE),
      position |-> position,
      electrotonic_distance |-> FMin(distance, MAX_ELECTROTONIC_LENGTH),
      state |-> "Active",
      activity_history |-> << >>,
      last_active |-> 0,
      plasticity |-> plasticity ]

\* Synapse::strengthen
SynStrengthen(s, activity_strength) ==
    LET delta == NMul(NMul(s.plasticity, activity_strength),
                      PowF08(NSub(SCALE, s.weight)))
    IN  [s EXCEPT !.weight = NMin(NAdd(s.weight, delta), SCALE)]

\* Synapse::weaken
SynWeaken(s, amount) ==
    LET delta == NMul(NMul(s.plasticity, amount), PowF08(s.weight))
    IN  Let(NSub(s.weight, delta), LAMBDA w :
            IF NLt(w, Lit(1, 100))
            THEN [s EXCEPT !.weight = Lit(1, 100), !.state = "Weakened"]
            ELSE [s EXCEPT !.weight = w])

SynUpdateActivity_KeepAll(s, current_time, activity_level) ==
    IF activity_level > MIN_SYNAPSE_ACTIVITY
    THEN [s EXCEPT !.activity_history = Append(@, activity_level),
                   !.last_active = current_time,
                   !.state = IF @ = "Weakened" THEN "Active" ELSE @]
    ELSE [s EXCEPT !.activity_history = Append(@, activity_level)]

\* Synapse::update_activity
SynUpdateActivity(s, current_time, activity_level) ==
    LET pushed == Append(s.activity_history, activity_level)
        history == IF Len(pushed) > 10 THEN Tail(pushed) ELSE pushed
    IN  IF activity_level > MIN_SYNAPSE_ACTIVITY
        THEN [s EXCEPT !.activity_history = history,
                       !.last_active = current_time,
                       !.state = IF @ = "Weakened" THEN "Active" ELSE @]
        ELSE [s EXCEPT !.activity_history = history]

\* the sum of an activity history from index i on
RECURSIVE SumActivity(_, _)
SumActivity(history, i) ==
    IF i > Len(history) THEN 0 ELSE history[i] + SumActivity(history, i + 1)

\* Synapse::average_activity
SynAverageActivity(s) ==
    IF Len(s.activity_history) = 0 THEN 0
    ELSE FDiv(SumActivity(s.activity_history, 1), Len(s.activity_history) * SCALE)

\* Synapse::check_inactivity, the condition under which it weakens
IsInactive_Never(s, current_time) == FALSE

IsInactive(s, current_time) ==
    current_time - s.last_active > INACTIVITY_THRESHOLD_DAYS

\* Synapse::check_inactivity: [syn |-> the synapse after the call,
\* ret |-> the value returned]
SynCheckInactivity(s, current_time) ==
    IF IsInactive(s, current_time)
    THEN [ syn |-> [s EXCEPT !.state = "Weakened"], ret |-> TRUE ]
    ELSE [ syn |-> s, ret |-> FALSE ]

SynConvertToGhost_AnyState(s) ==
    [s EXCEPT !.state = "Ghost", !.weight = FMul(@, Lit(1, 10))]

\* Synapse::convert_to_ghost
SynConvertToGhost(s) ==
    IF s.state = "Weakened"
    THEN [s EXCEPT !.state = "Ghost", !.weight = FMul(@, Lit(1, 10))]
    ELSE s

\* ------------------------------------------------------------------------
\* Position, GrowthFactor (types.rs, axon.rs)
\* ------------------------------------------------------------------------
PI == 3141 * K + 593

\* f32 % : the remainder has the sign of the dividend
FMod(a, b) == Let(a, LAMBDA x : IF x >= 0 THEN x % b ELSE -((-x) % b))

\* sum of the Taylor series of sin or cos from the term `term` of index k on
RECURSIVE TrigSeries(_, _, _, _)
TrigSeries(term, x2, k, n) ==
    IF n = 0 \/ term = 0 THEN 0
    ELSE term + TrigSeries(-(MulSigned(term, x2) \div ((k + 1) * (k + 2))), x2, k + 2, n - 1)

\* the angle x brought into [-PI, PI]
WrapAngle(x) ==
    Let(FMod(x, 2 * PI), LAMBDA r :
        IF r > PI THEN r - 2 * PI ELSE IF r < -PI THEN r + 2 * PI ELSE r)

\* f32::sin, f32::cos
FSin(x) == Let(WrapAngle(x), LAMBDA r : TrigSeries(r, MulSigned(r, r), 1, 12))
FCos(x) == Let(WrapAngle(x), LAMBDA r : TrigSeries(SCALE, MulSigned(r, r), 0, 12))

\* Position::new
Pos(x, y, z) == [x |-> x, y |-> y, z |-> z]
Origin == Pos(0, 0, 0)

\* length of the vector (dx, dy, dz)
Norm3(dx, dy, dz) == FSqrt(FMul(dx, dx) + FMul(dy, dy) + FMul(dz, dz))

\* Position::distance_to
DistanceTo(p, q) == Norm3(p.x - q.x, p.y - q.y, p.z - q.z)

\* GrowthFactor::new
GrowthFactorNew_Unclamped(position, strength, radius, factor_type) ==
    [ position |-> position, strength |-> strength, radius |-> radius,
      factor_type |-> factor_type ]

GrowthFactorNew(position, strength, radius, factor_type) ==
    [ position |-> position,
      strength |-> FClamp(strength, 0, SCALE),
      radius |-> FMax(radius, Lit(1, 10)),
      factor_type |-> factor_type ]

\* GrowthFactor::influence_at
InfluenceAt(f, position) ==
    Let(DistanceTo(f.position, position), LAMBDA distance :
        IF distance > f.radius THEN 0
        ELSE Let(FMul(f.strength, SCALE - FDiv(distance, f.radius)), LAMBDA base_influence :
             CASE f.factor_type = "Attractive" -> base_influence
               [] f.factor_type = "Repulsive" -> -base_influence
               [] f.factor_type = "Obstacle" ->
                    IF distance < FMul(f.radius, Lit(1, 2))
                    THEN -Lit(2, 1)
                    ELSE FMul(-base_influence, Lit(15, 10))))

\* ------------------------------------------------------------------------
\* AxonGrowth (axon.rs)
\* ------------------------------------------------------------------------
A_BASE_GROWTH_RATE == Lit(10, 1)
MAX_FACTOR_INFLUENCE == Lit(5, 1)
A_ENERGY_PER_GROWTH_UNIT == Lit(1, 1)
A_MIN_ENERGY_THRESHOLD == Lit(5, 1)
MAX_MEASUREMENTS == 100

\* AxonGrowth::new
AxonNew(position, initial_energy) ==
    [ position |-> position,
      origin |-> position,
      direction |-> <<SCALE, 0, 0>>,
      energy |-> initial_energy,
      segments |-> <<position>>,
      length |-> 0,
      measurements |-> << >>,
      time |-> 0 ]

\* AxonGrowth::can_grow
CanGrow(a) == a.energy >= A_MIN_ENERGY_THRESHOLD

\* AxonGrowth::grow, the deterministic deflection added on every third segment
AxonNoise(a) ==
    IF Len(a.segments) % 3 = 0
    THEN Let(FMod(FMul(a.time, Lit(7, 1)), 2 * PI), LAMBDA noise_angle :
             <<0, FMul(FSin(noise_angle), Lit(5, 100)), FMul(FCos(noise_angle), Lit(5, 100))>>)
    ELSE <<0, 0, 0>>

\* AxonGrowth::grow, the direction change a factor of influence `influence`
\* at distance `distance` adds to dc
AxonDeflect(dc, factor, dx, dy, dz, distance, influence) ==
    Let(FDiv(influence, distance), LAMBDA normalized_influence :
        IF factor.factor_type = "Obstacle" /\ distance < factor.radius
        THEN << dc[1] + FMul(FMul(-dx, normalized_influence), Lit(1, 2)),
                dc[2] + FMul(FMul(dz, Abs(normalized_influence)), Lit(2, 1)),
                dc[3] + FMul(FMul(-dy, Abs(normalized_influence)), Lit(2, 1)) >>
        ELSE << dc[1] + FMul(dx, normalized_influence),
                dc[2] + FMul(dy, normalized_influence),
                dc[3] + FMul(dz, normalized_influence) >>)

\* AxonGrowth::grow, one pass of the loop over the factors: acc is
\* [total |-> total_influence, dc |-> direction_change]
AxonFactorStep(a, acc, factor) ==
    LET dx == factor.position.x - a.position.x
        dy == factor.position.y - a.position.y
        dz == factor.position.z - a.position.z
    IN  Let(InfluenceAt(factor, a.position), LAMBDA influence :
        Let(Norm3(dx, dy, dz), LAMBDA distance :
            [ total |-> acc.total + influence,
              dc |-> IF influence # 0 /\ distance > Lit(1, 1000)
                     THEN AxonDeflect(acc.dc, factor, dx, dy, dz, distance, influence)
                     ELSE acc.dc ]))

RECURSIVE AxonFactorLoop(_, _, _, _)
AxonFactorLoop(a, acc, factors, i) ==
    IF i > Len(factors) THEN acc
    ELSE Let(AxonFactorStep(a, acc, factors[i]), LAMBDA next :
             AxonFactorLoop(a, next, factors, i + 1))

\* v / mag, componentwise
Scale3(v, mag) == <<FDiv(v[1], mag), FDiv(v[2], mag), FDiv(v[3], mag)>>

\* AxonGrowth::grow, "Neue Richtung mit Traegheit": 70% old direction, 30%
\* normalized direction change, renormalized
AxonBlend(direction, n) ==
    Let(<< FMul(Lit(7, 10), direction[1]) + FMul(Lit(3, 10), n[1]),
           FMul(Lit(7, 10), direction[2]) + FMul(Lit(3, 10), n[2]),
           FMul(Lit(7, 10), direction[3]) + FMul(Lit(3, 10), n[3]) >>, LAMBDA d :
    Let(Norm3(d[1], d[2], d[3]), LAMBDA new_mag :
        IF new_mag > Lit(1, 1000) THEN Scale3(d, new_mag) ELSE d))

\* AxonGrowth::grow, "Richtung anpassen (mit Traegheit)": the new direction
AxonSteer(direction, total_influence, dc) ==
    IF Abs(total_influence) > 0 \/ dc[2] # 0 \/ dc[3] # 0
    THEN Let(Norm3(dc[1], dc[2], dc[3]), LAMBDA mag :
             IF mag > Lit(1, 1000) THEN AxonBlend(direction, Scale3(dc, mag)) ELSE direction)
    ELSE direction

\* a step charged at the dendritic rate of 1.2 per unit
AxonEnergyCost_Dendritic(growth_amount) == FMul(growth_amount, D_ENERGY_PER_GROWTH_UNIT)

\* AxonGrowth::grow, the energy cost of a step
AxonEnergyCost(growth_amount) == FMul(growth_amount, A_ENERGY_PER_GROWTH_UNIT)

\* AxonGrowth::grow, "Messdaten speichern (alle 0.5 Tage)"
AxonRecord_Unbounded(measurements, time, length, growth_rate) ==
    IF measurements = << >> \/ time - measurements[Len(measurements)].time >= Lit(1, 2)
    THEN Append(measurements, [ time |-> time, length |-> length,
                                growth_rate |-> growth_rate, branches |-> 0 ])
    ELSE measurements

AxonRecord(measurements, time, length, growth_rate) ==
    IF measurements = << >> \/ time - measurements[Len(measurements)].time >= Lit(1, 2)
    THEN Let(Append(measurements,
                    [ time |-> time, length |-> length,
                      growth_rate |-> growth_rate, branches |-> 0 ]), LAMBDA pushed :
             IF Len(pushed) > MAX_MEASUREMENTS THEN Tail(pushed) ELSE pushed)
    ELSE measurements

\* AxonGrowth::grow, the axon on the early return for insufficient energy:
\* the direction has been adjusted by then
AxonAbort(a, direction) == [a EXCEPT !.direction = direction]

\* f32 subtraction a - b of a non-negative b from a positive a.  An f32 has 24
\* significant bits: a b below half the spacing of the floats around a is
\* rounded away and the result is a again.  a / 2^25 is below that half
\* spacing for every a; above it the difference is taken at the resolution
\* of the model.
F32Sub(a, b) == IF a > 0 /\ b >= 0 /\ b < a \div (2^25) THEN a ELSE a - b

\* AxonGrowth::grow from "Energie verbrauchen" on
AxonAdvance(a, direction, growth_rate, growth_amount, energy_cost, time_step) ==
    Let(Pos(a.position.x + FMul(direction[1], growth_amount),
            a.position.y + FMul(direction[2], growth_amount),
            a.position.z + FMul(direction[3], growth_amount)), LAMBDA position :
        [ position |-> position,
          origin |-> a.origin,
          direction |-> direction,
          energy |-> F32Sub(a.energy, energy_cost),
          segments |-> Append(a.segments, position),
          length |-> a.length + growth_amount,
          measurements |-> AxonRecord(a.measurements, a.time + time_step,
                                      a.length + growth_amount, growth_rate),
          time |-> a.time + time_step ])

\* AxonGrowth::grow: [axon |-> the axon after the call, ret |-> the value
\* returned, exit |-> the return taken]
AxonGrow(a, factors, time_step) ==
    IF ~CanGrow(a)
    THEN [axon |-> a, ret |-> 0, exit |-> "cannot_grow"]
    ELSE
    Let(AxonFactorLoop(a, [total |-> 0, dc |-> AxonNoise(a)], factors, 1), LAMBDA acc :
    Let(AxonSteer(a.direction, acc.total, acc.dc), LAMBDA direction :
    Let(FMul(A_BASE_GROWTH_RATE,
             SCALE + FClamp(FDiv(acc.total, MAX_FACTOR_INFLUENCE), -Lit(1, 2), Lit(1, 2))),
        LAMBDA growth_rate :
    Let(FMul(growth_rate, time_step), LAMBDA growth_amount :
    Let(AxonEnergyCost(growth_amount), LAMBDA energy_cost :
        IF a.energy < energy_cost
        THEN [axon |-> AxonAbort(a, direction), ret |-> 0, exit |-> "insufficient_energy"]
        ELSE [ axon |-> AxonAdvance(a, direction, growth_rate, growth_amount,
                                    energy_cost, time_step),
               ret |-> growth_amount,
               exit |-> "grown" ])))))

\* AxonGrowth::add_energy
AxonAddEnergy(a, amount) == [a EXCEPT !.energy = @ + amount]

\* ------------------------------------------------------------------------
\* DendriticSegment (dendritic_growth.rs)
\* A Uuid is modelled by the position of the object it names in the order of
\* creation of its collection; the value of the Uuid itself is random.
\* ------------------------------------------------------------------------
\* Option<Uuid>::None
NoId == 0

\* CableProperties::default, in whole ohms
AXIAL_RESISTANCE == 100
MEMBRANE_RESISTANCE == 10000

CablePropertiesDefault ==
    [ axial_resistance |-> AXIAL_RESISTANCE,
      membrane_resistance |-> MEMBRANE_RESISTANCE,
      membrane_capacitance |-> 1 ]

\* DendriticSegment::new
SegmentNew(position, length, branch_depth, parent_id) ==
    [ position |-> position,
      length |-> length,
      diameter |-> FMul(Lit(2, 1), FPowI(Lit(8, 10), branch_depth)),
      branch_depth |-> branch_depth,
      synapses |-> << >>,
      parent_id |-> parent_id,
      child_ids |-> << >>,
      cable_properties |-> CablePropertiesDefault ]

\* DendriticSegment::add_synapse
SegmentAddSynapse(seg, source_neuron_id, position, electrotonic_distance) ==
    [seg EXCEPT !.synapses =
        Append(@, SynapseNew(source_neuron_id, position, electrotonic_distance))]

\* DendriticSegment::add_child
SegmentAddChild(seg, child_id) == [seg EXCEPT !.child_ids = Append(@, child_id)]

\* DendriticSegment::update_synapse_activity; active_inputs is the set of the
\* ids in the slice
SegmentUpdateSynapseActivity(seg, active_inputs, current_time) ==
    LET synapses == seg.synapses
    IN  [seg EXCEPT !.synapses =
            [k \in DOMAIN synapses |->
                SynUpdateActivity(synapses[k], current_time,
                                  IF synapses[k].source_neuron_id \in active_inputs
                                  THEN SCALE ELSE 0)]]

\* the sum of the average activities of the synapses from index i on
RECURSIVE SumAverages(_, _)
SumAverages(synapses, i) ==
    IF i > Len(synapses) THEN 0
    ELSE SynAverageActivity(synapses[i]) + SumAverages(synapses, i + 1)

\* DendriticSegment::compete_synapses
SegmentCompeteSynapses(seg) ==
    LET synapses == seg.synapses
    IN  IF Len(synapses) <= 1 THEN seg
        ELSE Let(FDiv(SumAverages(synapses, 1), Len(synapses) * SCALE), LAMBDA avg_activity :
             [seg EXCEPT !.synapses =
                 [k \in DOMAIN synapses |->
                     Let(SynAverageActivity(synapses[k]), LAMBDA activity :
                         IF activity > avg_activity
                         THEN SynStrengthen(synapses[k], Lit(1, 100))
                         ELSE IF activity < FMul(avg_activity, Lit(1, 2))
                         THEN SynWeaken(synapses[k], Lit(2, 100))
                         ELSE synapses[k])]])

\* the number of the synapses from index i on that check_inactivity weakens
RECURSIVE CountInactive(_, _, _)
CountInactive(synapses, current_time, i) ==
    IF i > Len(synapses) THEN 0
    ELSE (IF SynCheckInactivity(synapses[i], current_time).ret THEN 1 ELSE 0)
         + CountInactive(synapses, current_time, i + 1)

\* DendriticSegment::prune_synapses, the second loop on one synapse
PruneToGhost(s) ==
    IF s.state = "Weakened"
       /\ SynAverageActivity(s) < FDiv(MIN_SYNAPSE_ACTIVITY, Lit(2, 1))
    THEN SynConvertToGhost(s)
    ELSE s

\* DendriticSegment::prune_synapses: [segment |-> the segment after the call,
\* ret |-> the value returned]
SegmentPruneSynapses_RemovingGhosts(seg, current_time) ==
    LET synapses == seg.synapses
        pruned == [k \in DOMAIN synapses |->
                      PruneToGhost(SynCheckInactivity(synapses[k], current_time).syn)]
    IN  [ segment |-> [seg EXCEPT !.synapses =
                          SelectSeq(pruned, LAMBDA s : s.state # "Ghost")],
          ret |-> CountInactive(synapses, current_time, 1) ]

SegmentPruneSynapses(seg, current_time) ==
    LET synapses == seg.synapses
    IN  [ segment |-> [seg EXCEPT !.synapses =
                          [k \in DOMAIN synapses |->
                              PruneToGhost(SynCheckInactivity(synapses[k],
                                                              current_time).syn)]],
          ret |-> CountInactive(synapses, current_time, 1) ]

\* DendriticSegment::calculate_electrotonic_length; rm / ra is a whole number
\* and 0.5 * diameter * rm / ra is computed as (0.5 * diameter) * (rm / ra)
CalculateElectrotonicLength(seg) ==
    LET rm == seg.cable_properties.membrane_resistance
        ra == seg.cable_properties.axial_resistance
    IN  Let(FSqrt(FMul(Lit(1, 2), seg.diameter) * (rm \div ra)), LAMBDA lambda :
            FDiv(seg.length, lambda))

\* ------------------------------------------------------------------------
\* DendriticTree (dendritic_growth.rs)
\* ------------------------------------------------------------------------
\* DendriticTree::new
TreeNew(neuron_id, initial_energy) ==
    [ neuron_id |-> neuron_id,
      segments |-> << >>,
      root_segment_ids |-> << >>,
      energy |-> initial_energy,
      growth_rate_modifier |-> SCALE,
      electrotonic_length |-> Lit(8, 10),
      time |-> 0,
      connection_count |-> 0,
      rng_seed |-> 42,
      path_length_cache |-> << >>,
      tree_signature |-> 0 ]

\* DendriticTree::with_seed
TreeWithSeed(neuron_id, initial_energy, seed) ==
    [TreeNew(neuron_id, initial_energy) EXCEPT !.rng_seed = seed]

\* DendriticTree::invalidate_cache (the signature of a tree stays far below
\* the 2^64 at which wrapping_add wraps)
InvalidateCache_ClearOnly(t) == [t EXCEPT !.path_length_cache = << >>]

InvalidateCache(t) ==
    [t EXCEPT !.path_length_cache = << >>, !.tree_signature = @ + 1]

\* DendriticTree::initialize, the root segment of index i of initial_count
InitialRoot(i, initial_count) ==
    Let(FMul(FMul(FDiv(i * SCALE, initial_count * SCALE), Lit(2, 1)), PI), LAMBDA angle :
        SegmentNew(Pos(FMul(FCos(angle), Lit(5, 1)),
                       FMul(FSin(angle), Lit(5, 1)),
                       FMul((i % 2) * SCALE, Lit(2, 1))),
                   Lit(10, 1), 0, NoId))

\* DendriticTree::initialize, the loop from index i on
RECURSIVE InitializeLoop(_, _, _)
InitializeLoop(t, i, initial_count) ==
    IF i >= initial_count THEN t
    ELSE Let(InitialRoot(i, initial_count), LAMBDA segment :
             InitializeLoop([t EXCEPT !.segments = Append(@, segment),
                                      !.root_segment_ids = Append(@, Len(t.segments) + 1)],
                            i + 1, initial_count))

\* DendriticTree::initialize
TreeInitialize(t, initial_count) == InvalidateCache(InitializeLoop(t, 0, initial_count))

\* HashMap::insert
MapInsert(m, k, v) == [x \in DOMAIN m \cup {k} |-> IF x = k THEN v ELSE m[x]]

\* DendriticTree::get_path_length on the segments and the cache of a tree:
\* [cache |-> the cache after the call, value |-> the value returned]
RECURSIVE GetPathLength_OwnLengthOnly(_, _, _)
GetPathLength_OwnLengthOnly(segments, cache, segment_id) ==
    IF segment_id \in DOMAIN cache THEN [cache |-> cache, value |-> cache[segment_id]]
    ELSE IF segment_id \notin DOMAIN segments THEN [cache |-> cache, value |-> 0]
    ELSE Let(CalculateElectrotonicLength(segments[segment_id]), LAMBDA electrotonic_length :
             [ cache |-> MapInsert(cache, segment_id, electrotonic_length),
               value |-> electrotonic_length ])

RECURSIVE GetPathLength(_, _, _)
GetPathLength(segments, cache, segment_id) ==
    IF segment_id \in DOMAIN cache THEN [cache |-> cache, value |-> cache[segment_id]]
    ELSE IF segment_id \notin DOMAIN segments THEN [cache |-> cache, value |-> 0]
    ELSE Let(CalculateElectrotonicLength(segments[segment_id]), LAMBDA electrotonic_length :
         IF segments[segment_id].parent_id # NoId
         THEN Let(GetPathLength(segments, cache, segments[segment_id].parent_id), LAMBDA up :
                  [ cache |-> MapInsert(up.cache, segment_id, up.value + electrotonic_length),
                    value |-> up.value + electrotonic_length ])
         ELSE [ cache |-> MapInsert(cache, segment_id, electrotonic_length),
                value |-> electrotonic_length ])

\* the number of synapses of a sequence that are Active
RECURSIVE CountActive(_, _)
CountActive(synapses, i) ==
    IF i > Len(synapses) THEN 0
    ELSE (IF synapses[i].state = "Active" THEN 1 ELSE 0) + CountActive(synapses, i + 1)

RECURSIVE CountActiveSegments(_, _)
CountActiveSegments(segments, i) ==
    IF i > Len(segments) THEN 0
    ELSE CountActive(segments[i].synapses, 1) + CountActiveSegments(segments, i + 1)

\* DendriticTree::update_connection_count
UpdateConnectionCount_Stale(t) == t

UpdateConnectionCount(t) ==
    [t EXCEPT !.connection_count = CountActiveSegments(t.segments, 1)]

\* DendriticTree::add_synapse: [tree |-> the tree after the call,
\* ret |-> the index of the new synapse in its segment, NoId for None]
TreeAddSynapse_CachingMissing(t, segment_id, source_neuron_id) ==
    Let(GetPathLength(t.segments, t.path_length_cache, segment_id), LAMBDA path :
        IF segment_id \in DOMAIN t.segments
        THEN [ tree |-> UpdateConnectionCount(
                           [t EXCEPT !.path_length_cache = path.cache,
                                     !.segments[segment_id] =
                                        SegmentAddSynapse(@, source_neuron_id, @.position,
                                                          path.value)]),
               ret |-> Len(t.segments[segment_id].synapses) + 1 ]
        ELSE [ tree |-> [t EXCEPT !.path_length_cache =
                                     MapInsert(path.cache, segment_id, path.value)],
               ret |-> NoId ])

TreeAddSynapse(t, segment_id, source_neuron_id) ==
    Let(GetPathLength(t.segments, t.path_length_cache, segment_id), LAMBDA path :
        IF segment_id \in DOMAIN t.segments
        THEN [ tree |-> UpdateConnectionCount(
                           [t EXCEPT !.path_length_cache = path.cache,
                                     !.segments[segment_id] =
                                        SegmentAddSynapse(@, source_neuron_id, @.position,
                                                          path.value)]),
               ret |-> Len(t.segments[segment_id].synapses) + 1 ]
        ELSE [ tree |-> [t EXCEPT !.path_length_cache = path.cache], ret |-> NoId ])

\* DendriticTree::add_energy
TreeAddEnergy(t, amount) == [t EXCEPT !.energy = @ + amount]

\* DendriticTree::update_synapses, the body of the loop on one segment:
\* [segment |-> the segment after it, ret |-> what prune_synapses returned]
UpdatedSegment(seg, active_inputs, time) ==
    SegmentPruneSynapses(
        SegmentCompeteSynapses(SegmentUpdateSynapseActivity(seg, active_inputs, time)),
        time)

\* the sum of the ret fields of a sequence of records from index i on
RECURSIVE SumRet(_, _)
SumRet(rs, i) == IF i > Len(rs) THEN 0 ELSE rs[i].ret + SumRet(rs, i + 1)

\* DendriticTree::update_synapses: [tree |-> the tree after the call,
\* ret |-> the value returned].  The loop treats each segment on its own, so
\* the order in which keys() yields the ids does not show.
TreeUpdateSynapses(t, active_inputs) ==
    Let([i \in DOMAIN t.segments |-> UpdatedSegment(t.segments[i], active_inputs, t.time)],
        LAMBDA updated :
        [ tree |-> UpdateConnectionCount(
                       [t EXCEPT !.segments = [i \in DOMAIN updated |-> updated[i].segment]]),
          ret |-> SumRet(updated, 1) ])

\* the Uuid of the synapse that add_synapse pushed as the k-th of a segment
SynapseId(segment_id, k) == <<segment_id, k>>

\* DendriticTree::find_reactivatable_synapses, the pairs in the Vec returned
FindReactivatableSynapses(t, recent_activity_pattern) ==
    UNION { { <<segment_id, SynapseId(segment_id, k)>> :
                k \in { j \in DOMAIN t.segments[segment_id].synapses :
                          /\ t.segments[segment_id].synapses[j].state = "Ghost"
                          /\ t.segments[segment_id].synapses[j].source_neuron_id
                                 \in recent_activity_pattern } } :
            segment_id \in DOMAIN t.segments }

\* DendriticTree::reactivate_synapse, the condition of the inner if
IsReactivatable_AnyState(s, id, synapse_id) == id = synapse_id

IsReactivatable(s, id, synapse_id) == id = synapse_id /\ s.state = "Ghost"

\* DendriticTree::reactivate_synapse, the two assignments
Reactivated_KeepingWeight(s) == [s EXCEPT !.state = "Active"]

Reactivated(s) == [s EXCEPT !.state = "Active", !.weight = Lit(3, 10)]

\* DendriticTree::reactivate_synapse: [tree |-> the tree after the call,
\* ret |-> the value returned].  Ids are unique, so the loop finds at most
\* one synapse.
TreeReactivateSynapse(t, segment_id, synapse_id) ==
    IF segment_id \notin DOMAIN t.segments THEN [ tree |-> t, ret |-> FALSE ]
    ELSE LET synapses == t.segments[segment_id].synapses
             found == { k \in DOMAIN synapses :
                          IsReactivatable(synapses[k], SynapseId(segment_id, k), synapse_id) }
         IN  IF found = {} THEN [ tree |-> t, ret |-> FALSE ]
             ELSE [ tree |-> UpdateConnectionCount(
                               [t EXCEPT !.segments[segment_id].synapses[CHOOSE k \in found : TRUE] =
                                            Reactivated(@)]),
                    ret |-> TRUE ]

\* ------------------------------------------------------------------------
\* StdRng::seed_from_u64(seed) and the values drawn from it.  The generator
\* is a fixed function of the seed, defined outside this repository: rng is
\* a table seed -> [f |-> the first three gen_range(0.0..1.0) values,
\* i |-> the fraction u behind the first gen_range(0..n) = floor(u * n)],
\* filled in when a seed is first used and read ever after.
\* ------------------------------------------------------------------------
RngDraws ==
    { [f |-> <<Lit(5, 100), Lit(1, 2), Lit(1, 2)>>, i |-> 0],
      [f |-> <<Lit(6, 10), Lit(2, 10), Lit(9, 10)>>, i |-> Lit(1, 2)] }

\* the tables that extend tbl to the seeds
RngExtensions(tbl, seeds) ==
    { [s \in DOMAIN tbl \cup seeds |-> IF s \in DOMAIN tbl THEN tbl[s] ELSE g[s]] :
        g \in [seeds \ DOMAIN tbl -> RngDraws] }

\* x as u64 for an f32 x (saturating at 0)
AsU64(x) == IF x < 0 THEN 0 ELSE x \div SCALE

\* rng.gen_range(0..n) on the fraction u
GenRangeIndex(u, n) == (u * n) \div SCALE

\* the seed of grow and of add_direction_noise (seeds stay far below the 2^64
\* at which wrapping_add wraps)
GrowSeed(t) == t.rng_seed + AsU64(t.time) * 1000

\* the seed of select_growth_segment; (time * 100.0) as u64 is the whole part
\* of time * 100, taken here without forming the product
SelectSeed(t) == t.rng_seed + (IF t.time < 0 THEN 0 ELSE t.time \div (SCALE \div 100))

\* v / |v| when |v| > 0.001, else v
Normalize3(v) ==
    Let(Norm3(v[1], v[2], v[3]), LAMBDA mag :
        IF mag > Lit(1, 1000) THEN Scale3(v, mag) ELSE v)

\* DendriticTree::calculate_growth_direction, one pass of the loop
GrowthDirectionStep(position, direction, factor) ==
    LET dx == factor.position.x - position.x
        dy == factor.position.y - position.y
        dz == factor.position.z - position.z
    IN  Let(InfluenceAt(factor, position), LAMBDA influence :
        IF influence = 0 THEN direction
        ELSE Let(Norm3(dx, dy, dz), LAMBDA distance :
             IF distance > Lit(1, 1000)
             THEN Let(FDiv(influence, distance), LAMBDA normalized_influence :
                      << direction[1] + FMul(dx, normalized_influence),
                         direction[2] + FMul(dy, normalized_influence),
                         direction[3] + FMul(dz, normalized_influence) >>)
             ELSE direction))

RECURSIVE GrowthDirectionLoop(_, _, _, _)
GrowthDirectionLoop(position, direction, factors, i) ==
    IF i > Len(factors) THEN direction
    ELSE Let(GrowthDirectionStep(position, direction, factors[i]), LAMBDA next :
             GrowthDirectionLoop(position, next, factors, i + 1))

\* DendriticTree::calculate_growth_direction
CalculateGrowthDirection(position, factors) ==
    Normalize3(GrowthDirectionLoop(position, <<0, 0, 0>>, factors, 1))

\* DendriticTree::add_direction_noise with the three values drawn
AddDirectionNoise(direction, draws) ==
    Normalize3(<< direction[1] + FMul(draws[1], Lit(2, 10)) - Lit(1, 10),
                  direction[2] + FMul(draws[2], Lit(2, 10)) - Lit(1, 10),
                  direction[3] + FMul(draws[3], Lit(2, 10)) - Lit(1, 10) >>)

CandidateWeight_AnyDepth(segment) ==
    LET depth_penalty == IF segment.branch_depth > 2 THEN Lit(7, 10) ELSE SCALE
        child_count == Len(segment.child_ids)
        weight_base == IF child_count >= 3 THEN 1 ELSE 3 - child_count
    IN  FMul(weight_base * SCALE, depth_penalty) \div SCALE

\* DendriticTree::select_growth_segment, the number of times a segment is
\* entered in the candidates
CandidateWeight(segment) ==
    IF segment.branch_depth < MAX_BRANCHING_DEPTH
    THEN LET depth_penalty == IF segment.branch_depth > 2 THEN Lit(7, 10) ELSE SCALE
             child_count == Len(segment.child_ids)
             weight_base == IF child_count >= 3 THEN 1 ELSE 3 - child_count
         IN  FMul(weight_base * SCALE, depth_penalty) \div SCALE
    ELSE 0

\* DendriticTree::select_growth_segment, the candidates built when
\* segments.values() yields the segments in the order `order`
RECURSIVE Candidates(_, _, _)
Candidates(segments, order, i) ==
    IF i > Len(order) THEN << >>
    ELSE [k \in 1..CandidateWeight(segments[order[i]]) |-> order[i]]
            \o Candidates(segments, order, i + 1)

\* DendriticTree::select_growth_segment
SelectGrowthSegment(t, rng, order) ==
    IF Len(t.segments) = 0 THEN NoId
    ELSE Let(Candidates(t.segments, order, 1), LAMBDA candidates :
             IF Len(candidates) = 0 THEN NoId
             ELSE candidates[GenRangeIndex(rng[SelectSeed(t)].i, Len(candidates)) + 1])

\* the elements of a set of numbers in ascending order
RECURSIVE Ascending(_)
Ascending(S) ==
    IF S = {} THEN << >>
    ELSE LET m == CHOOSE x \in S : \A y \in S : x <= y
         IN  <<m>> \o Ascending(S \ {m})

\* The orders in which HashMap::values() may yield n segments.  The hasher
\* is seeded at random and the keys are random Uuids, so every order is
\* possible; select_growth_segment depends on the order only through the set
\* of segments that come before a segment, so one order is kept for each
\* such set.
IterationOrders(n) ==
    IF n = 0 THEN {<< >>}
    ELSE UNION { { Ascending(before) \o <<s>> \o Ascending((1..n) \ (before \cup {s})) :
                     before \in SUBSET ((1..n) \ {s}) } : s \in 1..n }

\* DendriticTree::grow, the branching probability
BranchingProbability(growth_rate_modifier, connection_count) ==
    Let(FDiv(connection_count * SCALE, OPTIMAL_CONNECTION_COUNT * SCALE),
        LAMBDA connection_ratio :
        FMul(FMul(BASE_BRANCHING_PROBABILITY, growth_rate_modifier),
             IF connection_ratio > Lit(12, 10) THEN Lit(1, 2)
             ELSE IF connection_ratio < Lit(8, 10) THEN Lit(15, 10)
             ELSE SCALE))

BranchEnergyCost_Flat(branch_depth) == D_ENERGY_PER_GROWTH_UNIT

\* DendriticTree::grow, the energy a branch on a parent of this depth costs
BranchEnergyCost(branch_depth) ==
    FMul(D_ENERGY_PER_GROWTH_UNIT, FPowI(Lit(11, 10), branch_depth))

\* DendriticTree::grow from "Energie verbrauchen" on
TreeBranch(t, segment_id, energy_cost, growth_factors, draws) ==
    LET parent == t.segments[segment_id]
    IN  Let(AddDirectionNoise(CalculateGrowthDirection(parent.position, growth_factors), draws),
            LAMBDA direction :
        Let(FMul(Lit(8, 1), FPowI(Lit(85, 100), parent.branch_depth + 1)), LAMBDA length :
        Let(SegmentNew(Pos(parent.position.x + FMul(direction[1], length),
                           parent.position.y + FMul(direction[2], length),
                           parent.position.z + FMul(direction[3], length)),
                       length, parent.branch_depth + 1, segment_id), LAMBDA new_segment :
            InvalidateCache(
                [t EXCEPT !.energy = @ - energy_cost,
                          !.segments = Append([@ EXCEPT ![segment_id] =
                                                  SegmentAddChild(@, Len(t.segments) + 1)],
                                              new_segment)]))))

\* DendriticTree::grow: [tree |-> the tree after the call, ret |-> the value
\* returned, exit |-> the return taken]
TreeGrow(t, growth_factors, time_step, recent_activity, rng, order) ==
    IF t.energy < D_MIN_ENERGY_THRESHOLD
    THEN [ tree |-> [t EXCEPT !.time = @ + time_step], ret |-> FALSE, exit |-> "low_energy" ]
    ELSE Let([t EXCEPT !.time = @ + time_step,
                       !.growth_rate_modifier = FMin(Lit(1, 2) + recent_activity, Lit(2, 1))],
             LAMBDA t1 :
         IF rng[GrowSeed(t1)].f[1] < BranchingProbability(t1.growth_rate_modifier,
                                                          t1.connection_count)
         THEN [ tree |-> t1, ret |-> FALSE, exit |-> "gate" ]
         ELSE Let(SelectGrowthSegment(t1, rng, order), LAMBDA segment_id :
              IF segment_id = NoId
              THEN [ tree |-> t1, ret |-> FALSE, exit |-> "no_candidate" ]
              ELSE IF segment_id \notin DOMAIN t1.segments
              THEN [ tree |-> t1, ret |-> FALSE, exit |-> "no_parent" ]
              ELSE Let(BranchEnergyCost(t1.segments[segment_id].branch_depth),
                       LAMBDA energy_cost :
                   IF t1.energy < energy_cost
                   THEN [ tree |-> t1, ret |-> FALSE, exit |-> "insufficient_energy" ]
                   ELSE [ tree |-> TreeBranch(t1, segment_id, energy_cost, growth_factors,
                                              rng[GrowSeed(t1)].f),
                          ret |-> TRUE, exit |-> "grown" ])))

\* the seed from which a grow call of step time_step on t draws its branching
\* value, if it gets that far
GateSeeds(t, time_step) ==
    IF t.energy < D_MIN_ENERGY_THRESHOLD THEN {}
    ELSE {GrowSeed([t EXCEPT !.time = @ + time_step])}

\* the seed from which that call draws its candidate index, if it gets that far
SelectSeeds(t, time_step, recent_activity, rng) ==
    LET t1 == [t EXCEPT !.time = @ + time_step,
                        !.growth_rate_modifier = FMin(Lit(1, 2) + recent_activity, Lit(2, 1))]
    IN  IF \/ t.energy < D_MIN_ENERGY_THRESHOLD
           \/ rng[GrowSeed(t1)].f[1] < BranchingProbability(t1.growth_rate_modifier,
                                                            t1.connection_count)
           \/ Len(t.segments) = 0
        THEN {}
        ELSE {SelectSeed(t1)}

\* one iteration order of the segments of t for each segment that a grow call
\* of step time_step may select (any order when the call selects none)
GrowOrders(t, time_step, rng) ==
    LET t1 == [t EXCEPT !.time = @ + time_step]
        all == IterationOrders(Len(t.segments))
    IN  IF SelectSeed(t1) \notin DOMAIN rng THEN {Ascending(DOMAIN t.segments)}
        ELSE { CHOOSE o \in all : SelectGrowthSegment(t1, rng, o) = s :
                 s \in {SelectGrowthSegment(t1, rng, o) : o \in all} }

\* ------------------------------------------------------------------------
\* DendriticTree::complexity_score
\* ------------------------------------------------------------------------
\* the fraction bits of log2 of x in [1, 2), by repeated squaring
RECURSIVE Log2Frac(_, _, _)
Log2Frac(x, bit, n) ==
    IF n = 0 \/ bit = 0 THEN 0
    ELSE Let(MulAbs(x, x), LAMBDA y :
             IF y >= 2 * SCALE
             THEN bit + Log2Frac(y \div 2, bit \div 2, n - 1)
             ELSE Log2Frac(y, bit \div 2, n - 1))

\* log2 of x > 0, e the whole part found so far
RECURSIVE Log2From(_, _)
Log2From(x, e) ==
    IF x < SCALE THEN Log2From(2 * x, e - 1)
    ELSE IF x >= 2 * SCALE THEN Log2From(x \div 2, e + 1)
    ELSE e * SCALE + Log2Frac(x, SCALE \div 2, 20)

\* f32::log2 of a positive number
FLog2(v) == Let(v, LAMBDA x : Log2From(x, 0))

RECURSIVE SumDepths(_, _)
SumDepths(segments, i) ==
    IF i > Len(segments) THEN 0
    ELSE segments[i].branch_depth + SumDepths(segments, i + 1)

\* complexity_score, depth_diversity: the entropy of the branch depths 0..6
RECURSIVE DepthDiversity(_, _)
DepthDiversity(segments, depth) ==
    IF depth > 6 THEN 0
    ELSE LET count == Cardinality({i \in DOMAIN segments :
                         (IF segments[i].branch_depth < 6 THEN segments[i].branch_depth ELSE 6)
                             = depth})
         IN  (IF count > 0
              THEN Let(FDiv(count * SCALE, Len(segments) * SCALE), LAMBDA p :
                       -FMul(p, FLog2(p)))
              ELSE 0) + DepthDiversity(segments, depth + 1)

\* DendriticTree::complexity_score
ComplexityScore(t) ==
    IF Len(t.segments) = 0 THEN 0
    ELSE LET segment_count == Len(t.segments) * SCALE
             avg_depth == FDiv(SumDepths(t.segments, 1) * SCALE, segment_count)
             terminal_count ==
                 Cardinality({i \in DOMAIN t.segments : Len(t.segments[i].child_ids) = 0})
         IN  FMul(FMul(FMul(segment_count, SCALE + avg_depth),
                       FSqrt(terminal_count * SCALE)),
                  SCALE + DepthDiversity(t.segments, 0))

\* ------------------------------------------------------------------------
\* DendriticTree::process_signal, process_signals
\* ------------------------------------------------------------------------
\* sum of the Taylor series of exp from the term `term` of index k on
RECURSIVE ExpSeries(_, _, _, _)
ExpSeries(term, x, k, n) ==
    IF n = 0 \/ term = 0 THEN 0
    ELSE term + ExpSeries(MulSigned(term, x) \div (k + 1), x, k + 1, n - 1)

\* f32::exp, by halving the argument into [-1, 1]
RECURSIVE ExpFrom(_)
ExpFrom(x) ==
    IF x < -SCALE \/ x > SCALE
    THEN Let(ExpFrom(DivSigned(x, Lit(2, 1))), LAMBDA h : MulAbs(h, h))
    ELSE ExpSeries(SCALE, x, 0, 14)

FExp(v) == Let(v, LAMBDA x : ExpFrom(x))

\* ln 2
LN2 == 693 * K + 147

\* f32::powf of a base >= 0 with a fractional exponent p: 2^(p * log2 x)
FPowF(v, p) ==
    Let(v, LAMBDA x :
        IF x <= 0 THEN 0 ELSE FExp(MulSigned(MulSigned(p, FLog2(x)), LN2)))

\* Synapse::effective_strength
EffectiveStrength(s) ==
    IF s.state # "Active" THEN 0
    ELSE FMul(s.weight, FExp(-FDiv(s.electrotonic_distance, ELECTROTONIC_DECAY_LAMBDA)))

\* the places <<segment, index>> of the synapses of t whose id is in the set
\* active_synapses
ActivePlaces(t, active_synapses) ==
    UNION { { <<i, k>> : k \in { j \in DOMAIN t.segments[i].synapses :
                                   SynapseId(i, j) \in active_synapses } } :
            i \in DOMAIN t.segments }

\* the sum of the effective strengths of the synapses at a set of places
RECURSIVE SumStrength(_, _)
SumStrength(t, places) ==
    IF places = {} THEN 0
    ELSE LET p == CHOOSE q \in places : TRUE
         IN  EffectiveStrength(t.segments[p[1]].synapses[p[2]])
             + SumStrength(t, places \ {p})

\* DendriticTree::process_signal
ProcessSignal(t, synapse_id) == SumStrength(t, ActivePlaces(t, {synapse_id}))

\* the sum a caller forms of process_signal over a set of ids
RECURSIVE SumProcessSignal(_, _)
SumProcessSignal(t, ids) ==
    IF ids = {} THEN 0
    ELSE LET id == CHOOSE x \in ids : TRUE
         IN  ProcessSignal(t, id) + SumProcessSignal(t, ids \ {id})

\* DendriticTree::detect_synapse_clusters, the clusters as sets of places
SynapseClusters(t, active_synapses) ==
    LET places == ActivePlaces(t, active_synapses)
        key(p) == <<p[1], t.segments[p[1]].synapses[p[2]].source_neuron_id>>
    IN  { { q \in places : key(q) = key(p) } : p \in places }

\* process_signals, the sublinear sum over the electrotonic distances
RECURSIVE SublinearSum(_, _, _)
SublinearSum(t, places, distances) ==
    IF distances = {} THEN 0
    ELSE LET d == CHOOSE e \in distances : TRUE
             at == { p \in places : t.segments[p[1]].synapses[p[2]].electrotonic_distance = d }
         IN  FPowF(SumStrength(t, at), Lit(85, 100))
             + SublinearSum(t, places, distances \ {d})

\* process_signals, the enhancement of a cluster of this many synapses
EnhancementFactor_Damping(size) == Lit(3, 10)

EnhancementFactor(size) ==
    SCALE + FMul(FPowF((size - 2) * SCALE, Lit(7, 10)), Lit(3, 10))

\* process_signals, what the clusters of three and more add
RECURSIVE ClusterBoost(_, _)
ClusterBoost(t, clusters) ==
    IF clusters = {} THEN 0
    ELSE LET c == CHOOSE x \in clusters : TRUE
         IN  (IF Cardinality(c) >= 3
              THEN Let(SumStrength(t, c), LAMBDA base_signal :
                       FMul(base_signal, EnhancementFactor(Cardinality(c))) - base_signal)
              ELSE 0)
             + ClusterBoost(t, clusters \ {c})

\* process_signals, the saturation of a segment with count active synapses
SaturationFactor(count) ==
    IF count > 7 THEN FDiv(SCALE, SCALE + FMul((count - 7) * SCALE, Lit(15, 100)))
    ELSE SCALE

\* process_signals, the saturation loop over the segments
RECURSIVE Saturate(_, _, _)
Saturate(total_signal, places, segment_ids) ==
    IF segment_ids = {} THEN total_signal
    ELSE LET i == CHOOSE x \in segment_ids : TRUE
         IN  Saturate(FMul(total_signal,
                           SaturationFactor(Cardinality({ p \in places : p[1] = i }))),
                      places, segment_ids \ {i})

\* DendriticTree::process_signals; active_synapses is the set of the ids in
\* the slice
ProcessSignals(t, active_synapses) ==
    LET places == ActivePlaces(t, active_synapses)
        distances == { t.segments[p[1]].synapses[p[2]].electrotonic_distance : p \in places }
    IN  Let(SublinearSum(t, places, distances)
                + ClusterBoost(t, SynapseClusters(t, active_synapses)),
            LAMBDA total_signal :
            Saturate(total_signal, places, { p[1] : p \in places }))

\* ------------------------------------------------------------------------
\* DendriteResourceManager (dendritic_growth.rs)
\* ------------------------------------------------------------------------
\* DendriteResourceManager::new
ManagerNew(initial_energy) ==
    [ available_energy |-> initial_energy,
      allocation_strategy |-> "ActivityBased",
      last_distribution |-> 0,
      distribution_interval |-> SCALE ]

\* DendriteResourceManager::add_energy
ManagerAddEnergy(m, amount) == [m EXCEPT !.available_energy = @ + amount]

\* DendriteResourceManager::set_strategy
ManagerSetStrategy(m, strategy) == [m EXCEPT !.allocation_strategy = strategy]

\* the sum of a sequence of f32
RECURSIVE SumSeq(_, _)
SumSeq(xs, i) == IF i > Len(xs) THEN 0 ELSE xs[i] + SumSeq(xs, i + 1)

\* a guard on half the interval
IntervalNotElapsed_HalfInterval(m, current_time) ==
    current_time - m.last_distribution < m.distribution_interval \div 2

\* distribute_energy, the guard on the interval
IntervalNotElapsed(m, current_time) ==
    current_time - m.last_distribution < m.distribution_interval

\* a share that is the whole pool
EnergyPerDendrite_WholePool(m, dendrites) == m.available_energy

\* distribute_energy under Equal, energy_per_dendrite
EnergyPerDendrite(m, dendrites) == FDiv(m.available_energy, Len(dendrites) * SCALE)

\* an allocation by the complement of the fraction
FractionAllocation_Complement(available_energy, weight, total) ==
    FMul(available_energy, SCALE - FDiv(weight, total))

\* distribute_energy under ActivityBased and GrowthPotential, the allocation of
\* a tree of weight `weight` out of `total`
FractionAllocation(available_energy, weight, total) ==
    FMul(available_energy, FDiv(weight, total))

\* a pool that keeps its energy
DrainPool_Keep(m) == m

\* distribute_energy, "self.available_energy = 0.0"
DrainPool(m) == [m EXCEPT !.available_energy = 0]

\* distribute_energy under GrowthPotential, the potential of a tree (the
\* division by the whole number max_complexity = 2000.0 is a whole division)
GrowthPotentialOf(t) ==
    LET max_complexity == 2000 * SCALE
    IN  Let((max_complexity - FMin(ComplexityScore(t), max_complexity)) \div 2000,
            LAMBDA inverse_complexity :
        Let(FMax(SCALE - FDiv(t.energy, Lit(100, 1)), 0), LAMBDA energy_need :
            FMul(FMul(inverse_complexity, energy_need), SCALE + t.growth_rate_modifier)))

GrowthPotentials(dendrites) == [i \in DOMAIN dendrites |-> GrowthPotentialOf(dendrites[i])]

\* distribute_energy, the loops that allocate by fraction, then drain the pool
DistributeByFraction(m, dendrites, weights, total) ==
    [ mgr |-> DrainPool(m),
      dendrites |-> [i \in DOMAIN dendrites |->
                        TreeAddEnergy(dendrites[i],
                                      FractionAllocation(m.available_energy, weights[i], total))] ]

\* DendriteResourceManager::distribute_energy: [mgr |-> the manager after the
\* call, dendrites |-> the trees after the call]
RECURSIVE DistributeEnergy(_, _, _, _)
DistributeEnergy(m, dendrites, current_time, activities) ==
    IF IntervalNotElapsed(m, current_time) THEN [mgr |-> m, dendrites |-> dendrites]
    ELSE IF Len(dendrites) = 0 THEN [mgr |-> m, dendrites |-> dendrites]
    ELSE Let([m EXCEPT !.last_distribution = current_time], LAMBDA m1 :
         LET fallback == DistributeEnergy([m1 EXCEPT !.allocation_strategy = "Equal"],
                                          dendrites, current_time, activities)
         IN  CASE m1.allocation_strategy = "Equal" ->
                    Let(EnergyPerDendrite(m1, dendrites), LAMBDA energy_per_dendrite :
                        [ mgr |-> DrainPool(m1),
                          dendrites |-> [i \in DOMAIN dendrites |->
                              TreeAddEnergy(dendrites[i], energy_per_dendrite)] ])
               [] m1.allocation_strategy = "ActivityBased" ->
                    IF Len(activities) # Len(dendrites) THEN fallback
                    ELSE Let(SumSeq(activities, 1), LAMBDA total_activity :
                             IF total_activity <= Lit(1, 1000) THEN fallback
                             ELSE DistributeByFraction(m1, dendrites, activities,
                                                       total_activity))
               [] m1.allocation_strategy = "GrowthPotential" ->
                    Let(GrowthPotentials(dendrites), LAMBDA growth_potentials :
                    Let(SumSeq(growth_potentials, 1), LAMBDA total_potential :
                        IF total_potential <= Lit(1, 1000) THEN fallback
                        ELSE DistributeByFraction(m1, dendrites, growth_potentials,
                                                  total_potential))))

\* ------------------------------------------------------------------------
\* The components at rest (a specification drives one component and leaves
\* the others as constructed)
\* ------------------------------------------------------------------------
SynIdle ==
    /\ syn = SynapseNew("n1", Origin, Lit(1, 10))
    /\ synOp = "new"
    /\ synCalls = 0
    /\ synLast = [op |-> "new"]

AxonIdle ==
    /\ axon = AxonNew(Origin, 0)
    /\ axonLast = [op |-> "new"]
    /\ axonCalls = 0
    /\ factorLast = [op |-> "none"]

TreeIdle ==
    /\ trees = << >>
    /\ rngTable = << >>
    /\ treeLast = [op |-> "new"]
    /\ treeCalls = 0

ManagerIdle ==
    /\ mgr = ManagerNew(0)
    /\ mgrDendrites = << >>
    /\ mgrLast = [op |-> "new"]
    /\ mgrCalls = 0

\* ------------------------------------------------------------------------
\* SpecSynapse: a caller constructs a growth Synapse and calls it
\* ------------------------------------------------------------------------
SynInit ==
    /\ syn \in {SynapseNew("n1", Origin, d) : d \in DistanceInputs}
          \cup {SynapseWithParams("n1", Origin, Lit(1, 10), w, p) :
                    w \in WeightInputs, p \in PlasticityInputs}
    /\ synOp = "new"
    /\ synCalls = 0
    /\ synLast = [op |-> "new"]
    /\ AxonIdle
    /\ TreeIdle
    /\ ManagerIdle

Strengthen(a) ==
    /\ synCalls < MaxSynCalls
    /\ syn' = SynStrengthen(syn, a)
    /\ synOp' = "strengthen"
    /\ synLast' = [op |-> "strengthen", activity_strength |-> a, pre |-> syn]
    /\ synCalls' = synCalls + 1
    /\ UNCHANGED <<axonVars, treeVars, mgrVars>>

Weaken(a) ==
    /\ synCalls < MaxSynCalls
    /\ syn' = SynWeaken(syn, a)
    /\ synOp' = "weaken"
    /\ synLast' = [op |-> "weaken", amount |-> a, pre |-> syn]
    /\ synCalls' = synCalls + 1
    /\ UNCHANGED <<axonVars, treeVars, mgrVars>>

SynNext ==
    \/ \E a \in AmountInputs : Strengthen(a)
    \/ \E a \in AmountInputs : Weaken(a)

SpecSynapse == SynInit /\ [][SynNext]_vars

\* ------------------------------------------------------------------------
\* SpecLifecycle: a caller holds a growth Synapse, new or with a history of
\* activity levels already recorded, and drives its activity and its state
\* ------------------------------------------------------------------------
MaxLifecycleCalls == 3

\* the numbers of levels recorded before the caller starts
HistoryLengths == {0, 9, 10}
LevelInputs == {0, Lit(5, 100), Lit(1, 1)}
TimeInputs == {Lit(1, 1), Lit(5, 1)}

\* a synapse after n calls update_activity(0.0, 0.0)
RECURSIVE WithHistory(_, _)
WithHistory(s, n) ==
    IF n = 0 THEN s
    ELSE Let(SynUpdateActivity(s, 0, 0), LAMBDA next : WithHistory(next, n - 1))

LifecycleInit ==
    /\ syn \in {WithHistory(SynapseNew("n1", Origin, Lit(1, 10)), n) : n \in HistoryLengths}
    /\ synOp = "new"
    /\ synCalls = 0
    /\ synLast = [op |-> "new"]
    /\ AxonIdle
    /\ TreeIdle
    /\ ManagerIdle

UpdateActivityCall(current_time, activity_level) ==
    /\ synCalls < MaxLifecycleCalls
    /\ syn' = SynUpdateActivity(syn, current_time, activity_level)
    /\ synOp' = "update_activity"
    /\ synLast' = [op |-> "update_activity", current_time |-> current_time,
                   activity_level |-> activity_level, pre |-> syn]
    /\ synCalls' = synCalls + 1
    /\ UNCHANGED <<axonVars, treeVars, mgrVars>>

CheckInactivityCall(current_time) ==
    /\ synCalls < MaxLifecycleCalls
    /\ \E r \in {SynCheckInactivity(syn, current_time)} :
          /\ syn' = r.syn
          /\ synLast' = [op |-> "check_inactivity", current_time |-> current_time,
                         pre |-> syn, ret |-> r.ret]
    /\ synOp' = "check_inactivity"
    /\ synCalls' = synCalls + 1
    /\ UNCHANGED <<axonVars, treeVars, mgrVars>>

ConvertToGhostCall ==
    /\ synCalls < MaxLifecycleCalls
    /\ syn' = SynConvertToGhost(syn)
    /\ synOp' = "convert_to_ghost"
    /\ synLast' = [op |-> "convert_to_ghost", pre |-> syn]
    /\ synCalls' = synCalls + 1
    /\ UNCHANGED <<axonVars, treeVars, mgrVars>>

LifecycleNext ==
    \/ \E t \in TimeInputs, level \in LevelInputs : UpdateActivityCall(t, level)
    \/ \E t \in TimeInputs : CheckInactivityCall(t)
    \/ ConvertToGhostCall

SpecLifecycle == LifecycleInit /\ [][LifecycleNext]_vars

\* ------------------------------------------------------------------------
\* SpecAxon: a caller constructs an AxonGrowth at the origin and steps it
\* ------------------------------------------------------------------------
MaxAxonCalls == 3

AxonEnergyInputs == {Lit(4, 1), Lit(5, 1), Lit(12, 1), Lit(30, 1)}
TimeStepInputs == {0, Lit(1, 10), Lit(1, 1)}
AxonAddEnergyInputs == {Lit(-10, 1), Lit(5, 1)}
FactorInputs ==
    { << >>,
      << GrowthFactorNew(Pos(0, Lit(10, 1), 0), Lit(8, 10), Lit(15, 1), "Attractive") >>,
      << GrowthFactorNew(Pos(Lit(10, 1), 0, 0), Lit(1, 1), Lit(15, 1), "Repulsive"),
         GrowthFactorNew(Pos(0, 0, Lit(3, 1)), Lit(5, 1), Lit(4, 1), "Obstacle") >> }

AxonInit ==
    /\ axon \in {AxonNew(Origin, e) : e \in AxonEnergyInputs}
    /\ axonLast = [op |-> "new"]
    /\ axonCalls = 0
    /\ factorLast = [op |-> "none"]
    /\ SynIdle
    /\ TreeIdle
    /\ ManagerIdle

AxonGrowCall(factors, time_step) ==
    /\ axonCalls < MaxAxonCalls
    /\ \E r \in {AxonGrow(axon, factors, time_step)} :
           /\ axon' = r.axon
           /\ axonLast' = [ op |-> "grow", factors |-> factors, time_step |-> time_step,
                            pre |-> axon, ret |-> r.ret, exit |-> r.exit ]
    /\ axonCalls' = axonCalls + 1
    /\ UNCHANGED <<factorLast, synVars, treeVars, mgrVars>>

AxonAddEnergyCall(amount) ==
    /\ axonCalls < MaxAxonCalls
    /\ axon' = AxonAddEnergy(axon, amount)
    /\ axonLast' = [op |-> "add_energy", amount |-> amount, pre |-> axon]
    /\ axonCalls' = axonCalls + 1
    /\ UNCHANGED <<factorLast, synVars, treeVars, mgrVars>>

AxonNext ==
    \/ \E factors \in FactorInputs, time_step \in TimeStepInputs :
          AxonGrowCall(factors, time_step)
    \/ \E amount \in AxonAddEnergyInputs : AxonAddEnergyCall(amount)

SpecAxon == AxonInit /\ [][AxonNext]_vars

\* ------------------------------------------------------------------------
\* SpecFactor: a caller constructs GrowthFactors
\* ------------------------------------------------------------------------
FactorPositionInputs == {Origin, Pos(Lit(1, 1), -Lit(2, 1), Lit(3, 1))}
FactorStrengthInputs == {-Lit(1, 2), 0, Lit(3, 10), Lit(1, 1), Lit(25, 10)}
FactorRadiusInputs == {-Lit(1, 1), 0, Lit(5, 100), Lit(1, 10), Lit(15, 1)}
FactorTypes == {"Attractive", "Repulsive", "Obstacle"}

FactorInit ==
    /\ AxonIdle
    /\ SynIdle
    /\ TreeIdle
    /\ ManagerIdle

GrowthFactorNewCall(position, strength, radius, factor_type) ==
    /\ factorLast' = [ op |-> "new", position |-> position, strength |-> strength,
                       radius |-> radius, factor_type |-> factor_type,
                       ret |-> GrowthFactorNew(position, strength, radius, factor_type) ]
    /\ UNCHANGED <<axon, axonLast, axonCalls, synVars, treeVars, mgrVars>>

FactorNext ==
    \E position \in FactorPositionInputs, strength \in FactorStrengthInputs,
       radius \in FactorRadiusInputs, factor_type \in FactorTypes :
        GrowthFactorNewCall(position, strength, radius, factor_type)

SpecFactor == FactorInit /\ [][FactorNext]_vars

\* ------------------------------------------------------------------------
\* SpecAxonRun: a caller constructs an AxonGrowth with energy for a long run
\* and steps it a quarter of a day at a time, with no factors
\* ------------------------------------------------------------------------
MaxRunCalls == 204

RunEnergyInputs == {Lit(600, 1), Lit(1000, 1)}
RunTimeStepInputs == {Lit(1, 4)}

AxonRunInit ==
    /\ axon \in {AxonNew(Origin, e) : e \in RunEnergyInputs}
    /\ axonLast = [op |-> "new"]
    /\ axonCalls = 0
    /\ factorLast = [op |-> "none"]
    /\ SynIdle
    /\ TreeIdle
    /\ ManagerIdle

AxonRunGrowCall(time_step) ==
    /\ axonCalls < MaxRunCalls
    /\ \E r \in {AxonGrow(axon, << >>, time_step)} :
           /\ axon' = r.axon
           /\ axonLast' = [ op |-> "grow", factors |-> << >>, time_step |-> time_step,
                            pre |-> axon, ret |-> r.ret, exit |-> r.exit ]
    /\ axonCalls' = axonCalls + 1
    /\ UNCHANGED <<factorLast, synVars, treeVars, mgrVars>>

AxonRunNext == \E time_step \in RunTimeStepInputs : AxonRunGrowCall(time_step)

SpecAxonRun == AxonRunInit /\ [][AxonRunNext]_vars

\* ------------------------------------------------------------------------
\* SpecDepletion: the loop of test_energy_depletion, grow(&[], time_step)
\* called again and again with no add_energy, over small and large energies
\* and over long and short steps
\* ------------------------------------------------------------------------
MaxDepletionCalls == 6

DepletionEnergyInputs == {Lit(20, 1), Lit(2000, 1)}
DepletionTimeStepInputs == {Lit(5, 1000000), Lit(1, 1)}

DepletionInit ==
    /\ axon \in {AxonNew(Origin, e) : e \in DepletionEnergyInputs}
    /\ axonLast = [op |-> "new"]
    /\ axonCalls = 0
    /\ factorLast = [op |-> "none"]
    /\ SynIdle
    /\ TreeIdle
    /\ ManagerIdle

DepletionGrowCall(time_step) ==
    /\ axonCalls < MaxDepletionCalls
    /\ \E r \in {AxonGrow(axon, << >>, time_step)} :
           /\ axon' = r.axon
           /\ axonLast' = [ op |-> "grow", factors |-> << >>, time_step |-> time_step,
                            pre |-> axon, ret |-> r.ret, exit |-> r.exit ]
    /\ axonCalls' = axonCalls + 1
    /\ UNCHANGED <<factorLast, synVars, treeVars, mgrVars>>

DepletionNext == \E time_step \in DepletionTimeStepInputs : DepletionGrowCall(time_step)

SpecDepletion == DepletionInit /\ [][DepletionNext]_vars

\* ------------------------------------------------------------------------
\* SpecTree: a caller constructs a DendriticTree and calls it
\* ------------------------------------------------------------------------
MaxTreeCalls == 3

TreeSeeds == {42}
TreeEnergyInputs == {Lit(4, 1), Lit(100, 1)}
RootCountInputs == {1, 2}
TreeFactorInputs ==
    { << >>,
      <<GrowthFactorNew(Pos(Lit(5, 1), Lit(5, 1), Lit(5, 1)), Lit(8, 10), Lit(20, 1),
                        "Attractive")>> }
TreeTimeStepInputs == {Lit(1, 1)}
RecentActivityInputs == {0, Lit(1, 1)}

TreeInit ==
    /\ trees \in {<<TreeWithSeed("n1", e, seed)>> : e \in TreeEnergyInputs, seed \in TreeSeeds}
    /\ rngTable = << >>
    /\ treeLast = [op |-> "new"]
    /\ treeCalls = 0
    /\ SynIdle
    /\ AxonIdle
    /\ ManagerIdle

\* the results a grow call on tree i may have, one for each iteration order
GrowResults(i, growth_factors, time_step, recent_activity, rng) ==
    { TreeGrow(trees[i], growth_factors, time_step, recent_activity, rng, order) :
        order \in GrowOrders(trees[i], time_step, rng) }

TreeInitializeCall(initial_count) ==
    /\ treeCalls < MaxTreeCalls
    /\ trees' = <<TreeInitialize(trees[1], initial_count)>>
    /\ treeLast' = [op |-> "initialize", initial_count |-> initial_count, pre |-> trees]
    /\ treeCalls' = treeCalls + 1
    /\ UNCHANGED <<rngTable, synVars, axonVars, mgrVars>>

TreeGrowCall(growth_factors, time_step, recent_activity) ==
    /\ treeCalls < MaxTreeCalls
    /\ \E gate \in RngExtensions(rngTable, GateSeeds(trees[1], time_step)) :
       \E rng \in RngExtensions(gate, SelectSeeds(trees[1], time_step, recent_activity, gate)) :
       \E r \in GrowResults(1, growth_factors, time_step, recent_activity, rng) :
          /\ trees' = <<r.tree>>
          /\ rngTable' = rng
          /\ treeLast' = [op |-> "grow", growth_factors |-> growth_factors,
                          time_step |-> time_step, recent_activity |-> recent_activity,
                          pre |-> trees, ret |-> <<r.ret>>, exit |-> <<r.exit>>]
    /\ treeCalls' = treeCalls + 1
    /\ UNCHANGED <<synVars, axonVars, mgrVars>>

TreeAddSynapseCall(segment_id, source_neuron_id) ==
    /\ treeCalls < MaxTreeCalls
    /\ \E r \in {TreeAddSynapse(trees[1], segment_id, source_neuron_id)} :
          /\ trees' = <<r.tree>>
          /\ treeLast' = [op |-> "add_synapse", segment_id |-> segment_id,
                          source_neuron_id |-> source_neuron_id,
                          pre |-> trees, ret |-> <<r.ret>>]
    /\ treeCalls' = treeCalls + 1
    /\ UNCHANGED <<rngTable, synVars, axonVars, mgrVars>>

TreeNext ==
    \/ \E n \in RootCountInputs : TreeInitializeCall(n)
    \/ \E f \in TreeFactorInputs, ts \in TreeTimeStepInputs, a \in RecentActivityInputs :
          TreeGrowCall(f, ts, a)
    \/ \E id \in 1..(Len(trees[1].segments) + 1) : TreeAddSynapseCall(id, "n2")

SpecTree == TreeInit /\ [][TreeNext]_vars

\* ------------------------------------------------------------------------
\* SpecSites: a caller holds a DendriticTree that has grown a chain of
\* branches from one root, and calls grow and initialize
\* ------------------------------------------------------------------------
MaxSiteCalls == 2

\* the lengths of the chains the caller's tree may have grown
ChainLengths == {0, 3, 5}

\* the draws with which the chain was grown: every gate passed
ChainDraw == [f |-> <<Lit(6, 10), Lit(2, 10), Lit(9, 10)>>, i |-> Lit(1, 2)]

\* the table of those draws after n grow calls of step 1.0 on seed 42
ChainRng(n) == [s \in {42 + 1000 * k : k \in 1..n} \cup {42 + 100 * k : k \in 1..n} |-> ChainDraw]

\* the tree after a grow(&[], 1.0, 0.0) that has branched at parent
GrownAt(t, parent) ==
    LET results == { TreeGrow(t, << >>, Lit(1, 1), 0, ChainRng(Len(t.segments)), order) :
                       order \in IterationOrders(Len(t.segments)) }
    IN  (CHOOSE r \in results :
            /\ r.ret
            /\ r.tree.segments[Len(r.tree.segments)].parent_id = parent).tree

\* the tree after n such calls, each branching at the segment grown last
RECURSIVE ChainTree(_)
ChainTree(n) ==
    IF n = 0 THEN TreeInitialize(TreeWithSeed("n1", Lit(100, 1), 42), 1)
    ELSE GrownAt(ChainTree(n - 1), n)

SitesInit ==
    /\ \E n \in ChainLengths :
          /\ trees = <<ChainTree(n)>>
          /\ rngTable = ChainRng(n)
    /\ treeLast = [op |-> "new"]
    /\ treeCalls = 0
    /\ SynIdle
    /\ AxonIdle
    /\ ManagerIdle

SitesGrowCall(growth_factors, time_step, recent_activity) ==
    /\ treeCalls < MaxSiteCalls
    /\ \E gate \in RngExtensions(rngTable, GateSeeds(trees[1], time_step)) :
       \E rng \in RngExtensions(gate, SelectSeeds(trees[1], time_step, recent_activity, gate)) :
       \E r \in GrowResults(1, growth_factors, time_step, recent_activity, rng) :
          /\ trees' = <<r.tree>>
          /\ rngTable' = rng
          /\ treeLast' = [op |-> "grow", growth_factors |-> growth_factors,
                          time_step |-> time_step, recent_activity |-> recent_activity,
                          pre |-> trees, ret |-> <<r.ret>>, exit |-> <<r.exit>>]
    /\ treeCalls' = treeCalls + 1
    /\ UNCHANGED <<synVars, axonVars, mgrVars>>

SitesInitializeCall(initial_count) ==
    /\ treeCalls < MaxSiteCalls
    /\ trees' = <<TreeInitialize(trees[1], initial_count)>>
    /\ treeLast' = [op |-> "initialize", initial_count |-> initial_count, pre |-> trees]
    /\ treeCalls' = treeCalls + 1
    /\ UNCHANGED <<rngTable, synVars, axonVars, mgrVars>>

SitesNext ==
    \/ SitesGrowCall(<< >>, Lit(1, 1), 0)
    \/ SitesInitializeCall(1)

SpecSites == SitesInit /\ [][SitesNext]_vars

\* ------------------------------------------------------------------------
\* SpecPair: a caller constructs two DendriticTrees with the same seed and
\* the same energy and makes the same calls on both
\* ------------------------------------------------------------------------
MaxPairCalls == 4

PairEnergyInputs == {Lit(55, 10), Lit(100, 1)}
PairFactorInputs == {<< >>}
PairActivityInputs == {0}

PairInit ==
    /\ trees \in {<<TreeWithSeed("n1", e, seed), TreeWithSeed("n2", e, seed)>> :
                    e \in PairEnergyInputs, seed \in TreeSeeds}
    /\ rngTable = << >>
    /\ treeLast = [op |-> "new"]
    /\ treeCalls = 0
    /\ SynIdle
    /\ AxonIdle
    /\ ManagerIdle

PairInitialize(initial_count) ==
    /\ treeCalls < MaxPairCalls
    /\ trees' = <<TreeInitialize(trees[1], initial_count),
                  TreeInitialize(trees[2], initial_count)>>
    /\ treeLast' = [op |-> "initialize", initial_count |-> initial_count, pre |-> trees]
    /\ treeCalls' = treeCalls + 1
    /\ UNCHANGED <<rngTable, synVars, axonVars, mgrVars>>

PairGrow(growth_factors, time_step, recent_activity) ==
    /\ treeCalls < MaxPairCalls
    /\ \E gate \in RngExtensions(rngTable, GateSeeds(trees[1], time_step)
                                             \cup GateSeeds(trees[2], time_step)) :
       \E rng \in RngExtensions(gate,
                    SelectSeeds(trees[1], time_step, recent_activity, gate)
                        \cup SelectSeeds(trees[2], time_step, recent_activity, gate)) :
       \E r \in GrowResults(1, growth_factors, time_step, recent_activity, rng)
                  \X GrowResults(2, growth_factors, time_step, recent_activity, rng) :
          /\ trees' = <<r[1].tree, r[2].tree>>
          /\ rngTable' = rng
          /\ treeLast' = [op |-> "grow", growth_factors |-> growth_factors,
                          time_step |-> time_step, recent_activity |-> recent_activity,
                          pre |-> trees, ret |-> <<r[1].ret, r[2].ret>>,
                          exit |-> <<r[1].exit, r[2].exit>>]
    /\ treeCalls' = treeCalls + 1
    /\ UNCHANGED <<synVars, axonVars, mgrVars>>

PairNext ==
    \/ \E n \in RootCountInputs : PairInitialize(n)
    \/ \E f \in PairFactorInputs, ts \in TreeTimeStepInputs, a \in PairActivityInputs :
          PairGrow(f, ts, a)

SpecPair == PairInit /\ [][PairNext]_vars

\* ------------------------------------------------------------------------
\* SpecHomeostasis: a caller holds two DendriticTrees with the same seed and
\* energy, one root each and many synapses on the first and fewer on the
\* second, adds synapses and calls grow on both with the same arguments
\* ------------------------------------------------------------------------
MaxHomeostasisCalls == 2
MinOverSynapses == 24
MaxOverSynapses == 26
MinUnderSynapses == 14
MaxUnderSynapses == 16

\* a tree after n calls of add_synapse(root, n2)
RECURSIVE WithRootSynapses(_, _)
WithRootSynapses(t, n) ==
    IF n = 0 THEN t
    ELSE Let(TreeAddSynapse(t, 1, "n2").tree, LAMBDA next : WithRootSynapses(next, n - 1))

HomeostasisInit ==
    /\ trees = << WithRootSynapses(TreeInitialize(TreeWithSeed("n1", Lit(100, 1), 42), 1),
                                   MinOverSynapses),
                  WithRootSynapses(TreeInitialize(TreeWithSeed("n1", Lit(100, 1), 42), 1),
                                   MinUnderSynapses) >>
    /\ rngTable = << >>
    /\ treeLast = [op |-> "new"]
    /\ treeCalls = 0
    /\ SynIdle
    /\ AxonIdle
    /\ ManagerIdle

HomeostasisAddSynapse(i, limit) ==
    /\ Len(trees[i].segments[1].synapses) < limit
    /\ \E r \in {TreeAddSynapse(trees[i], 1, "n2")} :
          /\ trees' = [trees EXCEPT ![i] = r.tree]
          /\ treeLast' = [op |-> "add_synapse", segment_id |-> 1, source_neuron_id |-> "n2",
                          pre |-> trees, ret |-> <<r.ret>>]
    /\ UNCHANGED <<rngTable, treeCalls, synVars, axonVars, mgrVars>>

HomeostasisGrow(growth_factors, time_step, recent_activity) ==
    /\ treeCalls < MaxHomeostasisCalls
    /\ \E gate \in RngExtensions(rngTable, GateSeeds(trees[1], time_step)
                                             \cup GateSeeds(trees[2], time_step)) :
       \E rng \in RngExtensions(gate,
                    SelectSeeds(trees[1], time_step, recent_activity, gate)
                        \cup SelectSeeds(trees[2], time_step, recent_activity, gate)) :
       \E r \in GrowResults(1, growth_factors, time_step, recent_activity, rng)
                  \X GrowResults(2, growth_factors, time_step, recent_activity, rng) :
          /\ trees' = <<r[1].tree, r[2].tree>>
          /\ rngTable' = rng
          /\ treeLast' = [op |-> "grow", growth_factors |-> growth_factors,
                          time_step |-> time_step, recent_activity |-> recent_activity,
                          pre |-> trees, ret |-> <<r[1].ret, r[2].ret>>,
                          exit |-> <<r[1].exit, r[2].exit>>]
    /\ treeCalls' = treeCalls + 1
    /\ UNCHANGED <<synVars, axonVars, mgrVars>>

HomeostasisNext ==
    \/ HomeostasisAddSynapse(1, MaxOverSynapses)
    \/ HomeostasisAddSynapse(2, MaxUnderSynapses)
    \/ \E a \in PairActivityInputs : HomeostasisGrow(<< >>, Lit(1, 1), a)

SpecHomeostasis == HomeostasisInit /\ [][HomeostasisNext]_vars

\* ------------------------------------------------------------------------
\* SpecPlasticity: a caller holds a DendriticTree, fresh or with one root and
\* a synapse from each of two sources, Active or already Ghost, and calls it.  treeLast.offered is the
\* set of the source ids the caller has passed in a list so far.
\* ------------------------------------------------------------------------
MaxPlasticityCalls == 4

PlasticityEnergyInputs == {Lit(2, 1)}
PlasticityTimeStepInputs == {Lit(4, 1)}
ActiveInputs == {{}, {"n1"}}
PatternInputs == {{"n2"}}

\* a tree after initialize(1), add_synapse(root, n1), add_synapse(root, n2)
TreeWithSynapses(initial_energy) ==
    TreeAddSynapse(
        TreeAddSynapse(TreeInitialize(TreeWithSeed("n0", initial_energy, 42), 1),
                       1, "n1").tree,
        1, "n2").tree

\* that tree after grow(&[], 4.0, 0.0), which the low energy ends before any
\* value is drawn, and update_synapses(&[]), which leaves both synapses Ghost
TreeWithGhosts(initial_energy) ==
    TreeUpdateSynapses(
        TreeGrow(TreeWithSynapses(initial_energy), << >>, Lit(4, 1), 0, << >>, <<1>>).tree,
        {}).tree

PlasticityInit ==
    /\ trees \in {<<TreeWithSeed("n0", Lit(100, 1), 42)>>}
                 \cup {<<TreeWithSynapses(e)>> : e \in PlasticityEnergyInputs}
                 \cup {<<TreeWithGhosts(e)>> : e \in PlasticityEnergyInputs}
    /\ rngTable = << >>
    /\ treeLast = [op |-> "new", offered |-> {}]
    /\ treeCalls = 0
    /\ SynIdle
    /\ AxonIdle
    /\ ManagerIdle

PlasticityInitializeCall(initial_count) ==
    /\ treeCalls < MaxPlasticityCalls
    /\ trees' = <<TreeInitialize(trees[1], initial_count)>>
    /\ treeLast' = [op |-> "initialize", initial_count |-> initial_count, pre |-> trees,
                    offered |-> treeLast.offered]
    /\ treeCalls' = treeCalls + 1
    /\ UNCHANGED <<rngTable, synVars, axonVars, mgrVars>>

PlasticityGrowCall(time_step) ==
    /\ treeCalls < MaxPlasticityCalls
    /\ \E gate \in RngExtensions(rngTable, GateSeeds(trees[1], time_step)) :
       \E rng \in RngExtensions(gate, SelectSeeds(trees[1], time_step, 0, gate)) :
       \E r \in GrowResults(1, << >>, time_step, 0, rng) :
          /\ trees' = <<r.tree>>
          /\ rngTable' = rng
          /\ treeLast' = [op |-> "grow", time_step |-> time_step, pre |-> trees,
                          ret |-> r.ret, exit |-> r.exit, offered |-> treeLast.offered]
    /\ treeCalls' = treeCalls + 1
    /\ UNCHANGED <<synVars, axonVars, mgrVars>>

PlasticityAddSynapseCall(segment_id, source_neuron_id) ==
    /\ treeCalls < MaxPlasticityCalls
    /\ \E r \in {TreeAddSynapse(trees[1], segment_id, source_neuron_id)} :
          /\ trees' = <<r.tree>>
          /\ treeLast' = [op |-> "add_synapse", segment_id |-> segment_id,
                          source_neuron_id |-> source_neuron_id, pre |-> trees,
                          ret |-> r.ret, offered |-> treeLast.offered]
    /\ treeCalls' = treeCalls + 1
    /\ UNCHANGED <<rngTable, synVars, axonVars, mgrVars>>

UpdateSynapsesCall(active_inputs) ==
    /\ treeCalls < MaxPlasticityCalls
    /\ \E r \in {TreeUpdateSynapses(trees[1], active_inputs)} :
          /\ trees' = <<r.tree>>
          /\ treeLast' = [op |-> "update_synapses", active_inputs |-> active_inputs,
                          pre |-> trees, ret |-> r.ret,
                          offered |-> treeLast.offered \cup active_inputs]
    /\ treeCalls' = treeCalls + 1
    /\ UNCHANGED <<rngTable, synVars, axonVars, mgrVars>>

FindReactivatableCall(recent_activity_pattern) ==
    /\ treeCalls < MaxPlasticityCalls
    /\ treeLast' = [op |-> "find_reactivatable_synapses",
                    recent_activity_pattern |-> recent_activity_pattern, pre |-> trees,
                    ret |-> FindReactivatableSynapses(trees[1], recent_activity_pattern),
                    offered |-> treeLast.offered \cup recent_activity_pattern]
    /\ treeCalls' = treeCalls + 1
    /\ UNCHANGED <<trees, rngTable, synVars, axonVars, mgrVars>>

ReactivateSynapseCall(segment_id, synapse_id) ==
    /\ treeCalls < MaxPlasticityCalls
    /\ \E r \in {TreeReactivateSynapse(trees[1], segment_id, synapse_id)} :
          /\ trees' = <<r.tree>>
          /\ treeLast' = [op |-> "reactivate_synapse", segment_id |-> segment_id,
                          synapse_id |-> synapse_id, pre |-> trees, ret |-> r.ret,
                          offered |-> treeLast.offered]
    /\ treeCalls' = treeCalls + 1
    /\ UNCHANGED <<rngTable, synVars, axonVars, mgrVars>>

\* the caller passes the ids of all synapses of the first root and an id of no
\* synapse
PlasticityProcessSignalsCall ==
    /\ treeCalls < MaxPlasticityCalls
    /\ Len(trees[1].segments) > 0
    /\ \E ids \in { {SynapseId(1, k) : k \in 1..(Len(trees[1].segments[1].synapses) + 1)} } :
          treeLast' = [op |-> "process_signals", active_synapses |-> ids, pre |-> trees,
                       ret |-> ProcessSignals(trees[1], ids), offered |-> treeLast.offered]
    /\ treeCalls' = treeCalls + 1
    /\ UNCHANGED <<trees, rngTable, synVars, axonVars, mgrVars>>

\* the pairs a caller passes to reactivate_synapse: the first root with the
\* ids of its synapses and one more, and a segment id that is not in the table
ReactivateInputs(t) ==
    {<<1, SynapseId(1, k)>> : k \in 1..3} \cup {<<Len(t.segments) + 1, SynapseId(1, 1)>>}

PlasticityNext ==
    \/ PlasticityInitializeCall(1)
    \/ \E ts \in PlasticityTimeStepInputs : PlasticityGrowCall(ts)
    \/ \E id \in 1..(Len(trees[1].segments) + 1) : PlasticityAddSynapseCall(id, "n1")
    \/ \E active \in ActiveInputs : UpdateSynapsesCall(active)
    \/ \E pattern \in PatternInputs : FindReactivatableCall(pattern)
    \/ \E pair \in ReactivateInputs(trees[1]) : ReactivateSynapseCall(pair[1], pair[2])
    \/ PlasticityProcessSignalsCall

SpecPlasticity == PlasticityInit /\ [][PlasticityNext]_vars

\* ------------------------------------------------------------------------
\* SpecSignals: a caller holds a DendriticTree with two roots, puts synapses
\* of a common source (0) or of a fresh source on the first root and synapses
\* of fresh sources on the second, and queries the signals
\* ------------------------------------------------------------------------
MaxClusterSynapses == 5
MaxSpreadSynapses == 10

CommonSource == 0

\* a source id no synapse of t has, for a synapse put on segment i:
\* Uuid::new_v4()
FreshSource(t, i) == 100 * i + Len(t.segments[i].synapses) + 1

\* the ids of the synapses of segment i
IdsOn(t, i) == { SynapseId(i, k) : k \in DOMAIN t.segments[i].synapses }

\* the ids of the synapses of segment i with the common source
CommonIdsOn(t, i) ==
    { SynapseId(i, k) : k \in { j \in DOMAIN t.segments[i].synapses :
                                  t.segments[i].synapses[j].source_neuron_id = CommonSource } }

SignalsInit ==
    /\ trees = <<TreeInitialize(TreeNew(CommonSource, Lit(100, 1)), 2)>>
    /\ rngTable = << >>
    /\ treeLast = [op |-> "initialize"]
    /\ treeCalls = 0
    /\ SynIdle
    /\ AxonIdle
    /\ ManagerIdle

SignalsAddSynapseCall(segment_id, source_neuron_id, limit) ==
    /\ Len(trees[1].segments[segment_id].synapses) < limit
    /\ \E r \in {TreeAddSynapse(trees[1], segment_id, source_neuron_id)} :
          /\ trees' = <<r.tree>>
          /\ treeLast' = [op |-> "add_synapse", segment_id |-> segment_id,
                          source_neuron_id |-> source_neuron_id, ret |-> r.ret]
    /\ treeCalls' = treeCalls + 1
    /\ UNCHANGED <<rngTable, synVars, axonVars, mgrVars>>

ProcessSignalsCall(active_synapses) ==
    /\ treeLast' = [op |-> "process_signals", active_synapses |-> active_synapses,
                    ret |-> ProcessSignals(trees[1], active_synapses),
                    singles |-> SumProcessSignal(trees[1], active_synapses)]
    /\ UNCHANGED <<trees, rngTable, treeCalls, synVars, axonVars, mgrVars>>

SignalsNext ==
    \/ \E source \in {CommonSource, FreshSource(trees[1], 1)} :
          SignalsAddSynapseCall(1, source, MaxClusterSynapses)
    \/ SignalsAddSynapseCall(2, FreshSource(trees[1], 2), MaxSpreadSynapses)
    \/ \E ids \in {IdsOn(trees[1], 1), CommonIdsOn(trees[1], 1), IdsOn(trees[1], 2),
                   IdsOn(trees[1], 1) \cup IdsOn(trees[1], 2)} :
          ProcessSignalsCall(ids)

SpecSignals == SignalsInit /\ [][SignalsNext]_vars

\* ------------------------------------------------------------------------
\* SpecManager: a caller constructs a DendriteResourceManager and some trees
\* and calls the manager
\* ------------------------------------------------------------------------
MaxManagerCalls == 2
MaxDendrites == 2

ManagerEnergyInputs == {0, Lit(100, 1)}
AddEnergyInputs == {Lit(50, 1)}
CurrentTimeInputs == {Lit(1, 2), Lit(1, 1), Lit(25, 10)}
Strategies == {"Equal", "ActivityBased", "GrowthPotential"}

\* the activity vectors of length n a caller passes: no activity, the same
\* activity everywhere, one tree more active than the others
ActivityVectors(n) ==
    { [i \in 1..n |-> 0],
      [i \in 1..n |-> Lit(2, 10)],
      [i \in 1..n |-> IF i = 1 THEN Lit(8, 10) ELSE Lit(2, 10)] }

ActivityInputs == UNION {ActivityVectors(n) : n \in 0..MaxDendrites}

\* the trees a caller holds: initialized with two roots and little energy,
\* new with more energy than 100, initialized and grown once
DendriteShapes ==
    { TreeInitialize(TreeNew("n1", Lit(10, 1)), 2),
      TreeNew("n1", Lit(120, 1)),
      TreeGrow(TreeInitialize(TreeNew("n1", Lit(10, 1)), 2), << >>, Lit(1, 1), Lit(1, 1),
               [s \in {142, 1042} |-> [f |-> <<Lit(6, 10), Lit(2, 10), Lit(9, 10)>>, i |-> 0]],
               <<1, 2>>).tree }

ManagerInit ==
    /\ mgr \in {ManagerNew(e) : e \in ManagerEnergyInputs}
    /\ mgrDendrites \in UNION {[1..n -> DendriteShapes] : n \in 0..MaxDendrites}
    /\ mgrLast = [op |-> "new"]
    /\ mgrCalls = 0
    /\ SynIdle
    /\ AxonIdle
    /\ TreeIdle

DistributeEnergyCall(current_time, activities) ==
    /\ mgrCalls < MaxManagerCalls
    /\ \E r \in {DistributeEnergy(mgr, mgrDendrites, current_time, activities)} :
          /\ mgr' = r.mgr
          /\ mgrDendrites' = r.dendrites
    /\ mgrLast' = [op |-> "distribute_energy", current_time |-> current_time,
                   activities |-> activities, pre |-> mgr, pre_dendrites |-> mgrDendrites]
    /\ mgrCalls' = mgrCalls + 1
    /\ UNCHANGED <<synVars, axonVars, treeVars>>

ManagerAddEnergyCall(amount) ==
    /\ mgrCalls < MaxManagerCalls
    /\ mgr' = ManagerAddEnergy(mgr, amount)
    /\ mgrLast' = [op |-> "add_energy", amount |-> amount, pre |-> mgr,
                   pre_dendrites |-> mgrDendrites]
    /\ mgrCalls' = mgrCalls + 1
    /\ UNCHANGED <<mgrDendrites, synVars, axonVars, treeVars>>

SetStrategyCall(strategy) ==
    /\ mgrCalls < MaxManagerCalls
    /\ mgr' = ManagerSetStrategy(mgr, strategy)
    /\ mgrLast' = [op |-> "set_strategy", strategy |-> strategy, pre |-> mgr,
                   pre_dendrites |-> mgrDendrites]
    /\ mgrCalls' = mgrCalls + 1
    /\ UNCHANGED <<mgrDendrites, synVars, axonVars, treeVars>>

ManagerNext ==
    \/ \E ct \in CurrentTimeInputs, a \in ActivityInputs : DistributeEnergyCall(ct, a)
    \/ \E amount \in AddEnergyInputs : ManagerAddEnergyCall(amount)
    \/ \E strategy \in Strategies : SetStrategyCall(strategy)

SpecManager == ManagerInit /\ [][ManagerNext]_vars

\* ------------------------------------------------------------------------
\* Claims
\* ------------------------------------------------------------------------

\* C1: after every strengthen or weaken call, whatever the argument, the
\* weight of the synapse lies in [0.01, 1.0].
C1_WeightBounds ==
    synOp \in {"strengthen", "weaken"} =>
        /\ ~IsNaN(syn.weight)
        /\ syn.weight >= Lit(1, 100)
        /\ syn.weight <= SCALE

C5_AbortLeavesAxonUnchanged ==
    (axonLast.op = "grow" /\ axonLast.exit = "insufficient_energy") =>
        axon = axonLast.pre

\* the <<position, branch depth>> of the segments of a tree
SegmentShapes(t) == {<<t.segments[i].position, t.segments[i].branch_depth>> : i \in DOMAIN t.segments}

\* the weights of the synapses of a tree, segment by segment
SynapseWeights(t) ==
    [i \in DOMAIN t.segments |->
        [j \in DOMAIN t.segments[i].synapses |-> t.segments[i].synapses[j].weight]]

\* C2: two trees built by with_seed with the same seed and energy, initialized
\* with the same root count and given the same grow calls, return the same
\* grow results and have, after every step, the same number of segments, the
\* same segment positions and branch depths, the same energy and the same
\* synapse weights.
C2_SameSeedSameTree ==
    Len(trees) = 2 =>
        /\ treeLast.op = "grow" => treeLast.ret[1] = treeLast.ret[2]
        /\ Len(trees[1].segments) = Len(trees[2].segments)
        /\ SegmentShapes(trees[1]) = SegmentShapes(trees[2])
        /\ trees[1].energy = trees[2].energy
        /\ SynapseWeights(trees[1]) = SynapseWeights(trees[2])

\* the path length of a segment recomputed from the topology alone: its own
\* electrotonic length plus the path length of its parent, nothing above a root
RECURSIVE FreshPathLength(_, _)
FreshPathLength(segments, segment_id) ==
    CalculateElectrotonicLength(segments[segment_id])
        + (IF segments[segment_id].parent_id = NoId THEN 0
           ELSE FreshPathLength(segments, segments[segment_id].parent_id))

\* C3: after any sequence of initialize, grow and add_synapse calls every
\* entry of path_length_cache is the path length of its segment recomputed
\* from the current topology, and get_path_length returns with the cache what
\* it returns with the cache cleared.
C3_CacheIsFresh ==
    \A i \in DOMAIN trees :
        /\ \A id \in DOMAIN trees[i].path_length_cache :
              /\ id \in DOMAIN trees[i].segments
              /\ trees[i].path_length_cache[id] = FreshPathLength(trees[i].segments, id)
        /\ \A id \in DOMAIN trees[i].segments :
              GetPathLength(trees[i].segments, trees[i].path_length_cache, id).value
                = GetPathLength(trees[i].segments, << >>, id).value

\* a branch segment and its parent are cached after add_synapse on the branch
C3_Witness ==
    /\ Len(trees) = 1
    /\ treeLast.op = "add_synapse"
    /\ \E id \in DOMAIN trees[1].path_length_cache :
          /\ trees[1].segments[id].parent_id # NoId
          /\ trees[1].segments[id].parent_id \in DOMAIN trees[1].path_length_cache
          /\ trees[1].path_length_cache[id] > trees[1].path_length_cache[trees[1].segments[id].parent_id]

\* the last call was distribute_energy, made with the interval elapsed and at
\* least one tree
DistributionDue ==
    /\ mgrLast.op = "distribute_energy"
    /\ mgrLast.current_time - mgrLast.pre.last_distribution >= mgrLast.pre.distribution_interval
    /\ Len(mgrLast.pre_dendrites) > 0

\* the energy tree i gained in the last call
EnergyGained(i) == mgrDendrites[i].energy - mgrLast.pre_dendrites[i].energy

\* the activity vector of the last call has one entry for each tree
ActivitiesMatch == Len(mgrLast.activities) = Len(mgrLast.pre_dendrites)

\* C6: a distribute_energy call with the interval elapsed and at least one
\* tree, made under ActivityBased with an activity vector of the wrong length
\* or of sum at most 0.001, or under GrowthPotential with a total potential of
\* at most 0.001, raises the energy of every tree by available_energy /
\* tree_count and leaves available_energy at 0.
C6_FallbackDistributesEqually ==
    ( /\ DistributionDue
      /\ \/ /\ mgrLast.pre.allocation_strategy = "ActivityBased"
            /\ (~ActivitiesMatch \/ SumSeq(mgrLast.activities, 1) <= Lit(1, 1000))
         \/ /\ mgrLast.pre.allocation_strategy = "GrowthPotential"
            /\ SumSeq(GrowthPotentials(mgrLast.pre_dendrites), 1) <= Lit(1, 1000) )
    => /\ \A i \in DOMAIN mgrDendrites :
             EnergyGained(i) = FDiv(mgrLast.pre.available_energy,
                                    Len(mgrLast.pre_dendrites) * SCALE)
       /\ mgr.available_energy = 0

\* C7: a distribute_energy call made before distribution_interval has elapsed
\* since last_distribution changes neither the manager (available_energy,
\* last_distribution, allocation_strategy) nor any tree passed in.
C7_EarlyCallIsNoOp ==
    ( /\ mgrLast.op = "distribute_energy"
      /\ mgrLast.current_time - mgrLast.pre.last_distribution
            < mgrLast.pre.distribution_interval )
    => /\ mgr = mgrLast.pre
       /\ mgrDendrites = mgrLast.pre_dendrites

\* an early call on a manager that holds energy and is given trees
C7_Witness ==
    /\ mgrLast.op = "distribute_energy"
    /\ mgrLast.current_time - mgrLast.pre.last_distribution < mgrLast.pre.distribution_interval
    /\ mgrLast.pre.available_energy > 0
    /\ Len(mgrLast.pre_dendrites) > 0
    /\ ActivitiesMatch
    /\ SumSeq(mgrLast.activities, 1) > Lit(1, 1000)

\* available_energy plus the energy of the trees
RECURSIVE SumEnergy(_, _)
SumEnergy(ts, i) == IF i > Len(ts) THEN 0 ELSE ts[i].energy + SumEnergy(ts, i + 1)

TotalEnergy(m, ts) == m.available_energy + SumEnergy(ts, 1)

\* the rounding allowed to a sum of f32 allocations
EnergyTolerance == Lit(1, 1000)

\* C8: every distribute_energy call leaves available_energy plus the sum of
\* the trees' energies as it was, up to the rounding of the allocations, and a
\* call that changes the energy of a tree ends with available_energy = 0.
C8_EnergyConserved ==
    mgrLast.op = "distribute_energy" =>
        /\ Abs(TotalEnergy(mgr, mgrDendrites) - TotalEnergy(mgrLast.pre, mgrLast.pre_dendrites))
              <= EnergyTolerance
        /\ (\E i \in DOMAIN mgrDendrites : EnergyGained(i) # 0) => mgr.available_energy = 0

\* a call that moved the whole pool into two or more trees
C8_Witness ==
    /\ mgrLast.op = "distribute_energy"
    /\ mgrLast.pre.available_energy > 0
    /\ Len(mgrDendrites) >= 2
    /\ \A i \in DOMAIN mgrDendrites : EnergyGained(i) > 0
    /\ mgr.available_energy = 0

\* the last call was a distribution under ActivityBased with a non-negative
\* activity vector of the right length and of sum above 0.001
ActivityBasedDistribution ==
    /\ DistributionDue
    /\ mgrLast.pre.allocation_strategy = "ActivityBased"
    /\ ActivitiesMatch
    /\ \A i \in DOMAIN mgrLast.activities : mgrLast.activities[i] >= 0
    /\ SumSeq(mgrLast.activities, 1) > Lit(1, 1000)

\* every tree gained available_energy * activity[i] / sum(activity)
GainedByActivity ==
    \A i \in DOMAIN mgrDendrites :
        EnergyGained(i) = FMul(mgrLast.pre.available_energy,
                               FDiv(mgrLast.activities[i], SumSeq(mgrLast.activities, 1)))

C10_EqualShares ==
    (DistributionDue /\ mgrLast.pre.allocation_strategy = "Equal") =>
        /\ \A i \in DOMAIN mgrDendrites :
              EnergyGained(i) = FDiv(mgrLast.pre.available_energy,
                                     Len(mgrLast.pre_dendrites) * SCALE)
        /\ \A i, j \in DOMAIN mgrDendrites :
              mgrLast.pre_dendrites[i].energy = mgrLast.pre_dendrites[j].energy
              => mgrDendrites[i].energy = mgrDendrites[j].energy

\* a positive pool shared under Equal between two trees of equal energy and
\* unequal activity
C10_Witness ==
    /\ DistributionDue
    /\ mgrLast.pre.allocation_strategy = "Equal"
    /\ mgrLast.pre.available_energy > 0
    /\ \E i, j \in DOMAIN mgrDendrites :
          /\ ActivitiesMatch
          /\ mgrLast.activities[i] > mgrLast.activities[j]
          /\ mgrLast.pre_dendrites[i].energy = mgrLast.pre_dendrites[j].energy
          /\ EnergyGained(i) > 0
          /\ mgrDendrites[i].energy = mgrDendrites[j].energy

\* the places <<segment, index>> of the synapses of a tree
SynapseSlots(t) ==
    UNION { { <<i, k>> : k \in DOMAIN t.segments[i].synapses } : i \in DOMAIN t.segments }

SynapseAt(t, slot) == t.segments[slot[1]].synapses[slot[2]]

\* the tree before the last call
TreeBefore == treeLast.pre[1]

\* a synapse that an update_synapses call at the time of the tree before it
\* finds unfed and idle for more than INACTIVITY_THRESHOLD_DAYS
IdleTooLong(slot) ==
    /\ SynapseAt(TreeBefore, slot).state \in {"Active", "Weakened"}
    /\ SynapseAt(TreeBefore, slot).source_neuron_id \notin treeLast.active_inputs
    /\ TreeBefore.time - SynapseAt(TreeBefore, slot).last_active > Lit(3, 1)

\* C11: after update_synapses at tree time t, every synapse that was Active
\* or Weakened, whose source is not in the active list and whose last activity
\* lies more than INACTIVITY_THRESHOLD_DAYS before t, is Ghost if its rolling
\* average activity is below MIN_SYNAPSE_ACTIVITY / 2 and Weakened otherwise;
\* an Active synapse whose last activity lies within the threshold stays
\* Active, unless the weakening of compete_synapses has put its weight on the
\* floor of 0.01.
C11_InactivityDemotes ==
    treeLast.op = "update_synapses" =>
        \A slot \in SynapseSlots(TreeBefore) :
            /\ IdleTooLong(slot) =>
                  SynapseAt(trees[1], slot).state =
                      IF SynAverageActivity(SynapseAt(trees[1], slot)) < Lit(25, 1000)
                      THEN "Ghost" ELSE "Weakened"
            /\ ( /\ SynapseAt(TreeBefore, slot).state = "Active"
                 /\ TreeBefore.time - SynapseAt(trees[1], slot).last_active <= Lit(3, 1)
                 /\ SynapseAt(trees[1], slot).weight > Lit(1, 100) )
               => SynapseAt(trees[1], slot).state = "Active"

\* one update_synapses call that turns an idle synapse into a Ghost, leaves
\* another idle one, which was active in its window, Weakened, and so counts
\* both as pruned
C11_Witness ==
    /\ treeLast.op = "update_synapses"
    /\ treeLast.ret >= 2
    /\ \E a, b \in SynapseSlots(TreeBefore) :
          /\ IdleTooLong(a)
          /\ IdleTooLong(b)
          /\ SynapseAt(TreeBefore, a).state = "Active"
          /\ SynapseAt(trees[1], a).state = "Ghost"
          /\ SynapseAt(trees[1], b).state = "Weakened"

\* the synapse a reactivate_synapse call names, if the tree before it has it
NamedSlots ==
    { slot \in SynapseSlots(TreeBefore) :
        /\ slot[1] = treeLast.segment_id
        /\ SynapseId(slot[1], slot[2]) = treeLast.synapse_id }

\* the number of the Active synapses of a tree
ActiveSynapses(t) ==
    Cardinality({ slot \in SynapseSlots(t) : SynapseAt(t, slot).state = "Active" })

\* C12: reactivate_synapse on an existing Ghost synapse returns true, leaves
\* that synapse Active with weight 0.3 whatever its weight was, changes no
\* other synapse, and leaves connection_count equal to the number of Active
\* synapses.
C12_ReactivationOfGhost ==
    treeLast.op = "reactivate_synapse" =>
        \A named \in NamedSlots :
            SynapseAt(TreeBefore, named).state = "Ghost" =>
                /\ treeLast.ret = TRUE
                /\ SynapseAt(trees[1], named) =
                      [SynapseAt(TreeBefore, named) EXCEPT !.state = "Active",
                                                           !.weight = Lit(3, 10)]
                /\ \A slot \in SynapseSlots(TreeBefore) \ {named} :
                      SynapseAt(trees[1], slot) = SynapseAt(TreeBefore, slot)
                /\ SynapseSlots(trees[1]) = SynapseSlots(TreeBefore)
                /\ trees[1].connection_count = ActiveSynapses(trees[1])

\* a Ghost of weight other than 0.3 reactivated next to a second synapse
C12_Witness ==
    /\ treeLast.op = "reactivate_synapse"
    /\ treeLast.ret = TRUE
    /\ \E named \in NamedSlots :
          /\ SynapseAt(TreeBefore, named).state = "Ghost"
          /\ SynapseAt(TreeBefore, named).weight # Lit(3, 10)
          /\ SynapseAt(trees[1], named).state = "Active"
          /\ SynapseSlots(TreeBefore) # {named}
          /\ trees[1].connection_count > TreeBefore.connection_count

\* C13: reactivate_synapse on a Ghost synapse whose source is in no list of
\* active sources the caller has passed is refused, and the synapse stays
\* Ghost.
C13_ReactivationNeedsActiveSource ==
    treeLast.op = "reactivate_synapse" =>
        \A named \in NamedSlots :
            ( /\ SynapseAt(TreeBefore, named).state = "Ghost"
              /\ SynapseAt(TreeBefore, named).source_neuron_id \notin treeLast.offered )
            => /\ treeLast.ret = FALSE
               /\ SynapseAt(trees[1], named).state = "Ghost"

\* C14: reactivate_synapse returns false and leaves the tree as it was when
\* the segment id is not in the table, when the segment has no synapse of
\* that id, or when the synapse is Active or Weakened.
C14_RefusedReactivation ==
    ( /\ treeLast.op = "reactivate_synapse"
      /\ \A named \in NamedSlots : SynapseAt(TreeBefore, named).state # "Ghost" )
    => /\ treeLast.ret = FALSE
       /\ trees[1] = TreeBefore

\* reactivate_synapse called on a Weakened synapse
C14_Witness ==
    /\ treeLast.op = "reactivate_synapse"
    /\ treeLast.ret = FALSE
    /\ \E named \in NamedSlots : SynapseAt(TreeBefore, named).state = "Weakened"

\* C15: after every operation of a DendriticTree, connection_count is the
\* number of Active synapses over all its segments.
C15_ConnectionCountIsLive ==
    trees[1].connection_count = ActiveSynapses(trees[1])

\* an update_synapses call that lowers connection_count and leaves it positive
C15_Witness ==
    /\ treeLast.op = "update_synapses"
    /\ trees[1].connection_count > 0
    /\ trees[1].connection_count < TreeBefore.connection_count

\* C16: no operation of a DendriticTree removes a segment or a synapse: every
\* segment and every synapse of the tree before a call is still in its place
\* after it, the synapse with the source it had.
C16_NothingRemoved ==
    treeLast.op # "new" =>
        /\ DOMAIN TreeBefore.segments \subseteq DOMAIN trees[1].segments
        /\ SynapseSlots(TreeBefore) \subseteq SynapseSlots(trees[1])
        /\ \A slot \in SynapseSlots(TreeBefore) :
              SynapseAt(trees[1], slot).source_neuron_id =
                  SynapseAt(TreeBefore, slot).source_neuron_id

\* an update_synapses call that makes a Ghost, which stays in its segment
C16_Witness ==
    /\ treeLast.op = "update_synapses"
    /\ \E slot \in SynapseSlots(TreeBefore) :
          /\ SynapseAt(TreeBefore, slot).state # "Ghost"
          /\ SynapseAt(trees[1], slot).state = "Ghost"

\* C17: the electrotonic_distance of a synapse lies in
\* [0, MAX_ELECTROTONIC_LENGTH] however the synapse was constructed and
\* whatever distance the caller passed.
C17_DistanceInRange ==
    /\ syn.electrotonic_distance >= 0
    /\ syn.electrotonic_distance <= MAX_ELECTROTONIC_LENGTH

\* C18: whenever grow, called with a positive time_step, returns 0, the axon
\* is depleted: energy < MIN_ENERGY_THRESHOLD and can_grow() is false.
C18_ZeroGrowthMeansDepleted ==
    (axonLast.op = "grow" /\ axonLast.time_step > 0 /\ axonLast.ret = 0) =>
        /\ axon.energy < Lit(5, 1)
        /\ ~CanGrow(axon)

\* C19: the energy of an AxonGrowth is never negative, at construction and
\* after any sequence of grow and add_energy calls.
C19_EnergyNeverNegative == axon.energy >= 0

\* an entry was pushed by the last grow call
MeasurementPushed ==
    /\ axonLast.op = "grow"
    /\ axonLast.exit = "grown"
    /\ axon.measurements # << >>
    /\ axon.measurements[Len(axon.measurements)].time = axon.time
    /\ \A i \in DOMAIN axonLast.pre.measurements :
          axonLast.pre.measurements[i].time # axon.time

\* C20: measurements holds at most 100 entries, each at least 0.5 simulated
\* days after the one before it (so in strictly increasing time order); the
\* first successful grow records one; and an entry pushed onto 100 evicts the
\* oldest.
C20_MeasurementsBounded ==
    /\ Len(axon.measurements) <= 100
    /\ \A i \in 1..(Len(axon.measurements) - 1) :
          /\ axon.measurements[i + 1].time > axon.measurements[i].time
          /\ axon.measurements[i + 1].time - axon.measurements[i].time >= Lit(1, 2)
    /\ (axonLast.op = "grow" /\ axonLast.exit = "grown"
            /\ axonLast.pre.measurements = << >>)
       => (Len(axon.measurements) = 1 /\ axon.measurements[1].time = axon.time)
    /\ (MeasurementPushed /\ Len(axonLast.pre.measurements) = 100)
       => /\ Len(axon.measurements) = 100
          /\ \A i \in 1..99 : axon.measurements[i] = axonLast.pre.measurements[i + 1]

\* a grow call that pushes the 101st entry and evicts the first
C20_Witness ==
    /\ MeasurementPushed
    /\ Len(axonLast.pre.measurements) = 100
    /\ Len(axon.measurements) = 100
    /\ axon.measurements[1] = axonLast.pre.measurements[2]
    /\ axon.measurements[1] # axonLast.pre.measurements[1]

\* C21: distribute_energy moves last_distribution and the pool together: a
\* call that moved last_distribution has handed the pool to the trees, and a
\* call that changed the pool or a tree has set last_distribution to
\* current_time.
C21_IntervalConsumedWithPool ==
    mgrLast.op = "distribute_energy" =>
        /\ mgr.last_distribution # mgrLast.pre.last_distribution
           => /\ mgr.available_energy = 0
              /\ mgr.last_distribution = mgrLast.current_time
        /\ (mgr.available_energy # mgrLast.pre.available_energy
                \/ mgrDendrites # mgrLast.pre_dendrites)
           => mgr.last_distribution = mgrLast.current_time

\* C22: GrowthFactor::new stores the strength clamped to [0, 1], the radius
\* raised to at least 0.1, and the position and the kind as passed.
C22_FactorClamped ==
    factorLast.op = "new" =>
        /\ factorLast.ret.strength =
              (IF factorLast.strength < 0 THEN 0
               ELSE IF factorLast.strength > SCALE THEN SCALE ELSE factorLast.strength)
        /\ factorLast.ret.strength >= 0
        /\ factorLast.ret.strength <= SCALE
        /\ factorLast.ret.radius =
              (IF factorLast.radius < Lit(1, 10) THEN Lit(1, 10) ELSE factorLast.radius)
        /\ factorLast.ret.radius >= Lit(1, 10)
        /\ factorLast.ret.position = factorLast.position
        /\ factorLast.ret.factor_type = factorLast.factor_type

\* a factor constructed off the origin with a strength above 1 and a negative
\* radius
C22_Witness ==
    /\ factorLast.op = "new"
    /\ factorLast.position # Origin
    /\ factorLast.strength > SCALE
    /\ factorLast.radius < 0
    /\ factorLast.ret.strength = SCALE
    /\ factorLast.ret.radius = Lit(1, 10)

\* C28: distribute_energy never changes allocation_strategy; only set_strategy
\* does.
C28_StrategyKept ==
    mgrLast.op \in {"distribute_energy", "add_energy"} =>
        mgr.allocation_strategy = mgrLast.pre.allocation_strategy

\* five ids of Active synapses of one segment that share their source
IsFiveCluster(t, ids) ==
    /\ Cardinality(ids) = 5
    /\ \E i \in DOMAIN t.segments :
          /\ ids \subseteq { <<i, k>> : k \in DOMAIN t.segments[i].synapses }
          /\ \A a, b \in ids :
                /\ SynapseAt(t, a).state = "Active"
                /\ SynapseAt(t, a).source_neuron_id = SynapseAt(t, b).source_neuron_id

\* ten ids of Active synapses of one segment with pairwise different sources
IsTenSpread(t, ids) ==
    /\ Cardinality(ids) = 10
    /\ \E i \in DOMAIN t.segments :
          /\ ids \subseteq { <<i, k>> : k \in DOMAIN t.segments[i].synapses }
          /\ \A a, b \in ids :
                /\ SynapseAt(t, a).state = "Active"
                /\ a # b => SynapseAt(t, a).source_neuron_id # SynapseAt(t, b).source_neuron_id

\* the five-synapse clusters of a tree
FiveClusters(t) ==
    UNION { { ids \in SUBSET { <<i, k>> : k \in DOMAIN t.segments[i].synapses } :
                IsFiveCluster(t, ids) } : i \in DOMAIN t.segments }

GateDraw == rngTable[GrowSeed(trees[1])].f[1]

\* the branching probability of that call
GateProbability ==
    BranchingProbability(trees[1].growth_rate_modifier, trees[1].connection_count)

\* the last call was a grow that reached its gate
GateReached ==
    /\ treeLast.op = "grow"
    /\ treeLast.pre[1].energy >= D_MIN_ENERGY_THRESHOLD

C24_DrawAboveAborts ==
    GateReached =>
        /\ GateDraw > GateProbability
           => /\ treeLast.ret = <<FALSE>>
              /\ Len(trees[1].segments) = Len(treeLast.pre[1].segments)
        /\ GateDraw < GateProbability
           => treeLast.exit # <<"gate">>

\* ------------------------------------------------------------------------
\* C25: a Ghost synapse stays Ghost under every operation of the tree except
\* a reactivate_synapse that returns true: update_synapses, add_synapse and
\* grow never move a Ghost to Weakened or Active.
\* ------------------------------------------------------------------------
C25_GhostStaysGhost ==
    ( /\ treeLast.op # "new"
      /\ ~(treeLast.op = "reactivate_synapse" /\ treeLast.ret = TRUE) )
    => \A slot \in SynapseSlots(TreeBefore) :
          SynapseAt(TreeBefore, slot).state = "Ghost"
              => SynapseAt(trees[1], slot).state = "Ghost"

\* ------------------------------------------------------------------------
\* C26: grow chooses the growth site among all segments with branch_depth <
\* MAX_BRANCHING_DEPTH with weight max(1, 3 - child_count), scaled by 0.7 when
\* branch_depth > 2; every such segment has a strictly positive weight and
\* can be chosen, however many children it has.
\* ------------------------------------------------------------------------
\* the segments select_growth_segment may return for a tree
GrowthSites(t) ==
    LET candidates == Candidates(t.segments, Ascending(DOMAIN t.segments), 1)
    IN  { candidates[k] : k \in DOMAIN candidates }

C26_OpenSegmentsCanBeChosen ==
    \A i \in DOMAIN trees[1].segments :
        trees[1].segments[i].branch_depth < MAX_BRANCHING_DEPTH => i \in GrowthSites(trees[1])

\* ------------------------------------------------------------------------
\* C27: with the same seed, time, energy, activity and segments, a tree with
\* connection_count / OPTIMAL_CONNECTION_COUNT > 1.2 adds a segment on no
\* draw on which a tree with a ratio < 0.8 would not add one.
\* ------------------------------------------------------------------------
\* the segments of a tree without their synapses
Skeleton(t) == [i \in DOMAIN t.segments |-> [t.segments[i] EXCEPT !.synapses = << >>]]

\* the two trees before the last call differ in their synapses only, the
\* first over-connected and the second under-connected
OverAndUnder ==
    /\ treeLast.pre[1].rng_seed = treeLast.pre[2].rng_seed
    /\ treeLast.pre[1].time = treeLast.pre[2].time
    /\ treeLast.pre[1].energy = treeLast.pre[2].energy
    /\ Skeleton(treeLast.pre[1]) = Skeleton(treeLast.pre[2])
    /\ treeLast.pre[1].connection_count * 10 > 12 * OPTIMAL_CONNECTION_COUNT
    /\ treeLast.pre[2].connection_count * 10 < 8 * OPTIMAL_CONNECTION_COUNT

C27_OverConnectedGrowsNoMore ==
    (treeLast.op = "grow" /\ OverAndUnder) =>
        (Len(trees[1].segments) > Len(treeLast.pre[1].segments)
            => Len(trees[2].segments) > Len(treeLast.pre[2].segments))

\* ------------------------------------------------------------------------
\* C29: a synapse added with add_synapse at tree time t is not moved out of
\* Active by the inactivity check of update_synapses before the tree time
\* exceeds t + INACTIVITY_THRESHOLD_DAYS.  An update_synapses call that
\* follows the add_synapse call directly runs at tree time t.
\* ------------------------------------------------------------------------
C29_FreshSynapseStaysActive ==
    [][ ( /\ treeLast.op = "add_synapse"
          /\ treeLast.ret # NoId
          /\ treeLast'.op = "update_synapses" )
        => SynapseAt(trees'[1], <<treeLast.segment_id, treeLast.ret>>).state = "Active" ]_vars

\* ------------------------------------------------------------------------
\* C30: ghosting scales the weight of a synapse by 0.1 once: an
\* update_synapses call does not change the weight of a synapse that is Ghost
\* before the call and Ghost after it.
\* ------------------------------------------------------------------------
C30_GhostWeightKept ==
    treeLast.op = "update_synapses" =>
        \A slot \in SynapseSlots(TreeBefore) :
            ( /\ SynapseAt(TreeBefore, slot).state = "Ghost"
              /\ SynapseAt(trees[1], slot).state = "Ghost" )
            => SynapseAt(trees[1], slot).weight = SynapseAt(TreeBefore, slot).weight

\* ------------------------------------------------------------------------
\* C31: process_signals depends only on the Active synapses: the ids of
\* Weakened and Ghost synapses and ids of no synapse in the list do not change
\* the result.
\* ------------------------------------------------------------------------
\* the ids in the list of the last process_signals call that name an Active
\* synapse
ActiveIdsPassed ==
    { SynapseId(slot[1], slot[2]) :
        slot \in { q \in SynapseSlots(trees[1]) :
                     /\ SynapseId(q[1], q[2]) \in treeLast.active_synapses
                     /\ SynapseAt(trees[1], q).state = "Active" } }

C31_OnlyActiveSynapsesCount ==
    treeLast.op = "process_signals" =>
        treeLast.ret = ProcessSignals(trees[1], ActiveIdsPassed)

\* ------------------------------------------------------------------------
\* C32: every initialize call and every grow call that returns true leaves
\* path_length_cache empty and tree_signature increased by exactly 1; a grow
\* that returns false, add_synapse, update_synapses and reactivate_synapse
\* leave tree_signature unchanged.
\* ------------------------------------------------------------------------
C32_StructuralMutationBumpsSignature ==
    /\ ( \/ treeLast.op = "initialize"
         \/ (treeLast.op = "grow" /\ treeLast.ret = TRUE) )
       => /\ trees[1].path_length_cache = << >>
          /\ trees[1].tree_signature = TreeBefore.tree_signature + 1
    /\ ( \/ (treeLast.op = "grow" /\ treeLast.ret = FALSE)
         \/ treeLast.op \in {"add_synapse", "update_synapses", "reactivate_synapse"} )
       => trees[1].tree_signature = TreeBefore.tree_signature

\* a grow that adds a segment to a tree whose cache held a path length
C32_Witness ==
    /\ treeLast.op = "grow"
    /\ treeLast.ret = TRUE
    /\ TreeBefore.path_length_cache # << >>
    /\ trees[1].path_length_cache = << >>
    /\ trees[1].tree_signature = 2

\* ------------------------------------------------------------------------
\* C33: grow returns true exactly when it added one new segment as a child of
\* an existing segment and debited ENERGY_PER_GROWTH_UNIT * 1.1^(branch_depth
\* of the parent) from energy; when it returns false, energy, the segment
\* table and all parent/child links are unchanged.
\* ------------------------------------------------------------------------
\* the last grow call added the segment new_id as a child of parent_id and
\* paid for it
BranchAdded(before, after, parent_id) ==
    LET new_id == Len(before.segments) + 1
    IN  /\ Len(after.segments) = new_id
        /\ parent_id \in DOMAIN before.segments
        /\ after.segments[new_id].parent_id = parent_id
        /\ after.segments[new_id].child_ids = << >>
        /\ after.segments[parent_id] =
              [before.segments[parent_id] EXCEPT !.child_ids = Append(@, new_id)]
        /\ \A i \in DOMAIN before.segments \ {parent_id} :
              after.segments[i] = before.segments[i]
        /\ after.root_segment_ids = before.root_segment_ids
        /\ after.energy = before.energy
              - FMul(Lit(12, 10), FPowI(Lit(11, 10), before.segments[parent_id].branch_depth))

C33_GrowTrueIffBranchAdded ==
    treeLast.op = "grow" =>
        IF treeLast.ret = <<TRUE>>
        THEN BranchAdded(treeLast.pre[1], trees[1],
                         trees[1].segments[Len(trees[1].segments)].parent_id)
        ELSE /\ treeLast.ret = <<FALSE>>
             /\ trees[1].energy = treeLast.pre[1].energy
             /\ trees[1].segments = treeLast.pre[1].segments
             /\ trees[1].root_segment_ids = treeLast.pre[1].root_segment_ids

\* a grow that returned true after branching at a segment of depth 2 or more
C33_Witness ==
    /\ treeLast.op = "grow"
    /\ treeLast.ret = <<TRUE>>
    /\ Len(trees[1].segments) = Len(treeLast.pre[1].segments) + 1
    /\ trees[1].segments[trees[1].segments[Len(trees[1].segments)].parent_id].branch_depth >= 2
    /\ trees[1].energy < treeLast.pre[1].energy

\* ------------------------------------------------------------------------
\* C34: in every state of a DendriticTree reached through initialize and grow
\* the segments form a forest: every id in root_segment_ids is in the table
\* with no parent and branch_depth 0; every other segment has a parent in the
\* table, appears exactly once in the child_ids of that parent and has
\* branch_depth = the parent's branch_depth + 1 <= MAX_BRANCHING_DEPTH; no
\* segment is its own ancestor.
\* ------------------------------------------------------------------------
\* the ids in root_segment_ids
RootIds(t) == { t.root_segment_ids[k] : k \in DOMAIN t.root_segment_ids }

\* the segments reached from id by following parent_id at least once, within
\* steps links
RECURSIVE AncestorsOf(_, _, _)
AncestorsOf(t, id, steps) ==
    IF steps = 0 \/ id \notin DOMAIN t.segments \/ t.segments[id].parent_id = NoId THEN {}
    ELSE {t.segments[id].parent_id}
            \cup AncestorsOf(t, t.segments[id].parent_id, steps - 1)

C34_SegmentsFormForest ==
    LET t == trees[1]
    IN  /\ \A r \in RootIds(t) :
              /\ r \in DOMAIN t.segments
              /\ t.segments[r].parent_id = NoId
              /\ t.segments[r].branch_depth = 0
        /\ \A i \in DOMAIN t.segments \ RootIds(t) :
              /\ t.segments[i].parent_id \in DOMAIN t.segments
              /\ Cardinality({ k \in DOMAIN t.segments[t.segments[i].parent_id].child_ids :
                                 t.segments[t.segments[i].parent_id].child_ids[k] = i }) = 1
              /\ t.segments[i].branch_depth
                    = t.segments[t.segments[i].parent_id].branch_depth + 1
              /\ t.segments[i].branch_depth <= MAX_BRANCHING_DEPTH
        /\ \A i \in DOMAIN t.segments : i \notin AncestorsOf(t, i, Len(t.segments))

\* a tree with two roots and a segment at the depth limit
C34_Witness ==
    /\ Cardinality(RootIds(trees[1])) >= 2
    /\ \E i \in DOMAIN trees[1].segments :
          /\ trees[1].segments[i].branch_depth = MAX_BRANCHING_DEPTH
          /\ Cardinality(AncestorsOf(trees[1], i, Len(trees[1].segments))) = MAX_BRANCHING_DEPTH

\* ------------------------------------------------------------------------
\* C35: update_activity(t, level) with level > MIN_SYNAPSE_ACTIVITY sets
\* last_active to t and turns a Weakened synapse Active, and never changes the
\* state of an Active or Ghost synapse; with level <= MIN_SYNAPSE_ACTIVITY it
\* changes neither state nor last_active; in both cases activity_history
\* keeps at most the 10 most recent levels.
\* ------------------------------------------------------------------------
\* the last n elements of a sequence, all of them if it has fewer
LastOf(seq, n) == SubSeq(seq, IF Len(seq) > n THEN Len(seq) - n + 1 ELSE 1, Len(seq))

C35_UpdateActivity ==
    synLast.op = "update_activity" =>
        /\ synLast.activity_level > Lit(5, 100)
           => /\ syn.last_active = synLast.current_time
              /\ syn.state = IF synLast.pre.state = "Weakened" THEN "Active"
                             ELSE synLast.pre.state
        /\ synLast.activity_level <= Lit(5, 100)
           => /\ syn.last_active = synLast.pre.last_active
              /\ syn.state = synLast.pre.state
        /\ Len(syn.activity_history) <= 10
        /\ syn.activity_history
              = LastOf(Append(synLast.pre.activity_history, synLast.activity_level), 10)

\* a level above the threshold recorded on a Weakened synapse whose history
\* was full
C35_Witness ==
    /\ synLast.op = "update_activity"
    /\ synLast.activity_level > Lit(5, 100)
    /\ synLast.pre.state = "Weakened"
    /\ Len(synLast.pre.activity_history) = 10
    /\ syn.state = "Active"
    /\ syn.last_active # synLast.pre.last_active

\* ------------------------------------------------------------------------
\* C36: convert_to_ghost changes a synapse only when it is Weakened (the
\* state becomes Ghost and the weight is multiplied by 0.1); on an Active or
\* a Ghost synapse it changes nothing.
\* ------------------------------------------------------------------------
C36_ConvertOnlyWeakened ==
    synLast.op = "convert_to_ghost" =>
        IF synLast.pre.state = "Weakened"
        THEN syn = [synLast.pre EXCEPT !.state = "Ghost",
                                       !.weight = FMul(synLast.pre.weight, Lit(1, 10))]
        ELSE syn = synLast.pre

\* convert_to_ghost called on a Ghost, which it leaves as it is
C36_Witness ==
    /\ synLast.op = "convert_to_ghost"
    /\ synLast.pre.state = "Ghost"
    /\ syn.state = "Ghost"
    /\ syn.weight = Lit(1, 100)

\* ------------------------------------------------------------------------
\* C37: with no add_energy call and positive time steps, only finitely many
\* grow calls return a non-zero amount: growth ends by energy depletion.
\* grow(&[], time_step) returns the same amount for the same energy, so the
\* loop ends only if every call that grows leaves less energy than it found.
\* ------------------------------------------------------------------------
C37_GrowthDepletesEnergy ==
    (/\ axonLast.op = "grow"
     /\ axonLast.factors = << >>
     /\ axonLast.time_step > 0
     /\ axonLast.ret # 0)
    => axon.energy < axonLast.pre.energy

\* ------------------------------------------------------------------------
\* C38: once a DendriticTree's energy is below MIN_ENERGY_THRESHOLD, every
\* grow call returns false and adds no segment (until the energy is raised
\* from outside); every grow call, aborted or not, advances time by
\* time_step.
\* ------------------------------------------------------------------------
C38_LowEnergyGrowsNothing ==
    treeLast.op = "grow" =>
        /\ trees[1].time = treeLast.pre[1].time + treeLast.time_step
        /\ treeLast.pre[1].energy < Lit(3, 1)
           => /\ treeLast.ret = <<FALSE>>
              /\ trees[1].segments = treeLast.pre[1].segments
              /\ trees[1].energy = treeLast.pre[1].energy

\* a grow call refused on a tree whose energy an earlier branch had taken
\* below the threshold
C38_Witness ==
    /\ treeLast.op = "grow"
    /\ Len(treeLast.pre[1].segments) >= 2
    /\ treeLast.pre[1].energy < Lit(3, 1)
    /\ treeLast.pre[1].energy > Lit(2, 1)
    /\ treeLast.ret = <<FALSE>>
    /\ trees[1].time > treeLast.pre[1].time

\* ------------------------------------------------------------------------
\* C39: add_synapse with a segment id that is not in the table returns None
\* and changes nothing: no synapse is created and connection_count, the
\* path-length cache and tree_signature are as before; on a tree without
\* segments the path length looked up is 0.0.
\* ------------------------------------------------------------------------
C39_UnknownSegmentChangesNothing ==
    (/\ treeLast.op = "add_synapse"
     /\ treeLast.segment_id \notin DOMAIN treeLast.pre[1].segments)
    => /\ treeLast.ret = <<NoId>>
       /\ trees = treeLast.pre
       /\ GetPathLength(treeLast.pre[1].segments, treeLast.pre[1].path_length_cache,
                        treeLast.segment_id).value = 0

\* add_synapse refused for an unknown id on a tree that has synapses and
\* cached path lengths
C39_Witness ==
    /\ treeLast.op = "add_synapse"
    /\ treeLast.segment_id \notin DOMAIN treeLast.pre[1].segments
    /\ treeLast.ret = <<NoId>>
    /\ DOMAIN trees[1].path_length_cache # {}
    /\ trees[1].connection_count > 0

=============================================================================
